---- MODULE Spec2Model ----
(***************************************************************************)
(* A model of the apothecary-ai analytical pipeline:                       *)
(*   PatientProfilingAgent -> ForecastingAgent -> OptimizationAgent,       *)
(* and of the complete-analysis wrapper that chains them.                  *)
(*                                                                         *)
(* Numbers.  Python floats are modelled by exact rationals:                *)
(*   - a demand is an integer count of 1/DemandScale units;                *)
(*   - a unit cost is an integer count of 1/CostScale dollars (cents);     *)
(*   - a date is an integer day number;                                    *)
(*   - a ratio that the code keeps as a float is a pair <<num, den>> with  *)
(*     den > 0.                                                            *)
(* int(x) is truncation toward zero, round(x, k) is rounding to the        *)
(* nearest 10^-k (ties up).  IEEE rounding error is not modelled.          *)
(* A Python exception is an outcome of the step that raises it.            *)
(***************************************************************************)
EXTENDS Integers, Sequences, FiniteSets, TLC

VARIABLES
    \* ---- OptimizationAgent.execute ----
    today,                  \* date.today() of the run
    inventory_data,         \* the inventory DataFrame: a sequence of lot rows
    medication_db,          \* the medication DataFrame (its rows), or NoDb
    forecast,               \* the ForecastingResult handed to the optimizer
    optConfig,              \* the OptimizationConfig fields that vary
    optPc,                  \* position inside execute
    current_inventory,      \* Dict[medication -> MedicationInventory]
    demand_by_medication,   \* Dict[medication -> total demand], in insertion order
    optIndex,               \* how many entries of demand_by_medication were handled
    order_recommendations,  \* the recommendations appended so far
    optSummary,             \* Some(OptimizationSummary) once generated
    optError,               \* Some(exception) once one has ended execute
    \* ---- PatientProfilingAgent.execute ----
    profConfig,             \* the config dict PatientProfilingAgent was constructed with
    prescription_data,      \* the prescription DataFrame: a sequence of fill rows
    analysis_date,          \* the date used as "today"
    profPc,                 \* position inside execute
    profGroups,             \* the (patient_id, medication) keys of the groupby
    profIndex,              \* how many groups were analysed
    profiles,               \* the profiles appended so far
    profResult,             \* Some(PatientProfilingResult) once returned
    \* ---- ForecastingAgent.execute ----
    patient_profiles,       \* the PatientProfilingResult handed to the forecaster
    external_signals,       \* Optional[ExternalSignals]
    fcStartArg,             \* the start_date argument: Optional[date]
    fcToday,                \* date.today() of the run
    fcConfig,               \* the ForecastingConfig fields that matter
    fcPc,                   \* position inside execute
    patient_demand,         \* Dict[medication -> Dict[date -> quantity]]
    multipliers,            \* Dict[category -> multiplier]
    fcIndex,                \* how many medications were forecast
    medication_forecasts,   \* the MedicationForecast records so far
    category_forecasts,     \* the CategoryForecast records
    fcResult,               \* Some(ForecastingResult) once returned
    fcError,                \* Some(exception) once one has ended execute
    \* ---- the complete-analysis request ----
    pipePc,                 \* the stage of the run
    pipeStatus,             \* the AgentStatus the orchestrator emitted last
    pipeError,              \* Some(exception) once process_request has caught one
    \* ---- AGUIMessageHandler ----
    enable_streaming,       \* self.enable_streaming
    messages,               \* the list object self.messages
    status_updates,         \* the list object self.status_updates
    results,                \* the list object self.results
    callbacks,              \* the list object self.callbacks: one entry per registration
    delivered,              \* per registration, the messages its callback was called with
    returned,               \* the FinalResponse objects finalize has returned
    aguiLog                 \* every call made on the handler, in order

optVars == <<today, inventory_data, medication_db, forecast, optConfig, optPc,
             current_inventory, demand_by_medication, optIndex,
             order_recommendations, optSummary, optError>>

profVars == <<profConfig, prescription_data, analysis_date, profPc, profGroups, profIndex,
              profiles, profResult>>

fcVars == <<patient_profiles, external_signals, fcStartArg, fcToday, fcConfig, fcPc,
            patient_demand, multipliers, fcIndex, medication_forecasts,
            category_forecasts, fcResult, fcError>>

pipeVars == <<pipePc, pipeStatus, pipeError>>

aguiVars == <<enable_streaming, messages, status_updates, results, callbacks,
              delivered, returned, aguiLog>>

vars == <<optVars, profVars, fcVars, pipeVars, aguiVars>>

\* what a run of one agent leaves alone: the state of the others
nonOptVars == <<profVars, fcVars, pipeVars, aguiVars>>
nonProfVars == <<optVars, fcVars, pipeVars, aguiVars>>
nonFcVars == <<optVars, profVars, pipeVars, aguiVars>>
nonAguiVars == <<optVars, profVars, fcVars, pipeVars>>

-----------------------------------------------------------------------------
(* Scales and arithmetic helpers                                           *)

DemandScale == 100
CostScale == 100

\* a missing expiration_date (NaN/None in the DataFrame)
NoDate == -1
\* Optional values: None is the empty sequence, a value x is <<x>>.
None == <<>>
Some(x) == <<x>>
\* medication_db: Optional[pd.DataFrame]
NoDb == [present |-> FALSE, rows |-> <<>>]
Db(rows) == [present |-> TRUE, rows |-> rows]

\* An agent that is not run: its inputs empty, its position "idle".
OptIdle ==
    /\ today = 0
    /\ inventory_data = <<>>
    /\ medication_db = NoDb
    /\ forecast = [medication_forecasts |-> <<>>, summary |-> [forecast_horizon_days |-> 30]]
    /\ optConfig = [use_eoq |-> TRUE, round_to_case_size |-> TRUE]
    /\ optPc = "idle"
    /\ current_inventory = <<>>
    /\ demand_by_medication = <<>>
    /\ optIndex = 0
    /\ order_recommendations = <<>>
    /\ optSummary = None
    /\ optError = None

ProfIdle ==
    /\ profConfig = [highly_regular_std_threshold |-> None, regular_std_threshold |-> None]
    /\ prescription_data = <<>>
    /\ analysis_date = 0
    /\ profPc = "idle"
    /\ profGroups = <<>>
    /\ profIndex = 0
    /\ profiles = <<>>
    /\ profResult = None

FcIdle ==
    /\ patient_profiles = [profiles |-> <<>>, total_patient_medications |-> 0]
    /\ external_signals = None
    /\ fcStartArg = None
    /\ fcToday = 0
    /\ fcConfig = [forecast_horizon_days |-> 30, use_prophet |-> TRUE]
    /\ fcPc = "idle"
    /\ patient_demand = <<>>
    /\ multipliers = <<>>
    /\ fcIndex = 0
    /\ medication_forecasts = <<>>
    /\ category_forecasts = <<>>
    /\ fcResult = None
    /\ fcError = None

PipeIdle ==
    /\ pipePc = "Idle"
    /\ pipeStatus = "none"
    /\ pipeError = None

\* a handler as constructed, with nothing emitted
AguiIdle ==
    /\ enable_streaming = TRUE
    /\ messages = <<>>
    /\ status_updates = <<>>
    /\ results = <<>>
    /\ callbacks = <<>>
    /\ delivered = <<>>
    /\ returned = <<>>
    /\ aguiLog = <<>>

Max2(a, b) == IF a >= b THEN a ELSE b
Min2(a, b) == IF a <= b THEN a ELSE b

\* int(a / b) for b > 0: truncation toward zero.
TruncDiv(a, b) == IF a >= 0 THEN a \div b ELSE -((-a) \div b)

\* math.ceil(a / b) for b > 0.
CeilDiv(a, b) == IF a >= 0 THEN (a + b - 1) \div b ELSE -((-a) \div b)

\* floor(a * b / c) for a, b >= 0 and 0 < c < 2^27, without forming a * b:
\* <<quotient, remainder>> of a * b by c, three bits of b at a time.
RECURSIVE MulDivRem(_, _, _)
MulDivRem(a, b, c) ==
    IF b = 0 THEN <<0, 0>>
    ELSE LET h == MulDivRem(a, b \div 8, c)
             t == 8 * h[2] + (b % 8) * (a % c)
         IN  <<8 * h[1] + (b % 8) * (a \div c) + (t \div c), t % c>>

MulDiv(a, b, c) == MulDivRem(a, b, c)[1]

\* int(math.sqrt(x)) for an integer x >= 0.
RECURSIVE SqrtSearch(_, _, _)
SqrtSearch(x, lo, hi) ==
    IF lo >= hi THEN lo
    ELSE LET mid == (lo + hi + 1) \div 2
         IN  IF mid <= x \div mid THEN SqrtSearch(x, mid, hi)
             ELSE SqrtSearch(x, lo, mid - 1)

ISqrt(x) == IF x <= 0 THEN 0 ELSE SqrtSearch(x, 1, Min2(x, 46340))

\* Ratios <<num, den>>, den > 0.
RatLess(a, b) == a[1] * b[2] < b[1] * a[2]
RatLeq(a, b) == a[1] * b[2] <= b[1] * a[2]
RECURSIVE Gcd(_, _)
Gcd(a, b) == IF b = 0 THEN a ELSE Gcd(b, a % b)
\* the ratio n / d, d > 0, in lowest terms
Rat(n, d) ==
    LET g == Gcd(IF n < 0 THEN -n ELSE n, d) IN <<n \div g, d \div g>>
RatAdd(a, b) == Rat(a[1] * b[2] + b[1] * a[2], a[2] * b[2])
RatMul(a, b) == Rat(a[1] * b[1], a[2] * b[2])
\* max(0, min(1, num / den)), den > 0
ClampUnit(num, den) ==
    IF num <= 0 THEN <<0, 1>> ELSE IF num >= den THEN <<1, 1>> ELSE <<num, den>>

RECURSIVE SeqSum(_)
SeqSum(s) == IF s = <<>> THEN 0 ELSE Head(s) + SeqSum(Tail(s))

RECURSIVE RatSeqSum(_)
RatSeqSum(s) == IF s = <<>> THEN <<0, 1>> ELSE RatAdd(Head(s), RatSeqSum(Tail(s)))

Range(s) == {s[i] : i \in 1..Len(s)}

-----------------------------------------------------------------------------
(* OptimizationConfig defaults (src/schemas/optimization.py)               *)

safety_stock_days == 7
carrying_cost_rate_pct == 20
order_fixed_cost == 50
critical_threshold_days == 3
high_priority_threshold_days == 7
min_order_quantity == 1
DaysOfSupplySentinel == 999
ExpiringSoonDays == 30
DefaultCaseSize == 1
DefaultLeadTimeDays == 7

-----------------------------------------------------------------------------
(* OptimizationAgent._build_inventory_status                               *)

LotsOf(data, m) == LET IsOfMed(r) == r.medication = m IN SelectSeq(data, IsOfMed)

MinDate(S) ==
    LET d == CHOOSE x \in S : \A y \in S : x <= y IN d

\* case_size and lead_time_days of the first medication_db row of m.
MedInfo(db, m) ==
    IF ~db.present THEN [case_size |-> DefaultCaseSize, lead_time_days |-> DefaultLeadTimeDays]
    ELSE LET rows == LotsOf(db.rows, m)
         IN  IF rows = <<>>
             THEN [case_size |-> DefaultCaseSize, lead_time_days |-> DefaultLeadTimeDays]
             ELSE [case_size |-> rows[1].case_size,
                   lead_time_days |-> rows[1].lead_time_days]

MedicationInventoryOf(data, db, m, now) ==
    LET group == LotsOf(data, m)
        HasDate(r) == r.expiration_date # NoDate
        group_with_dates == SelectSeq(group, HasDate)
        ExpiresSoon(r) == r.expiration_date <= now + ExpiringSoonDays
        expiring_soon == SelectSeq(group_with_dates, ExpiresSoon)
    IN  [medication |-> m,
         current_quantity |-> SeqSum([i \in 1..Len(group) |-> group[i].quantity]),
         lot_count |-> Len(group),
         earliest_expiry |->
             IF group_with_dates = <<>> THEN NoDate
             ELSE MinDate({group_with_dates[i].expiration_date :
                              i \in 1..Len(group_with_dates)}),
         units_expiring_soon |->
             SeqSum([i \in 1..Len(expiring_soon) |-> expiring_soon[i].quantity]),
         \* group['unit_cost'].mean(): <<sum of the lots' unit costs, lots>>
         unit_cost |-> <<SeqSum([i \in 1..Len(group) |-> group[i].unit_cost]), Len(group)>>,
         case_size |-> MedInfo(db, m).case_size,
         lead_time_days |-> MedInfo(db, m).lead_time_days]

\* Dict[medication -> MedicationInventory]: one entry per medication with a lot row.
BuildInventoryStatus(data, db, now) ==
    [m \in {data[i].medication : i \in 1..Len(data)} |->
        MedicationInventoryOf(data, db, m, now)]

-----------------------------------------------------------------------------
(* OptimizationAgent._aggregate_forecast_demand: a dict in insertion order, *)
(* as a sequence of [medication, demand] entries.                          *)

RECURSIVE AddDemand(_, _, _)
AddDemand(entries, m, d) ==
    IF entries = <<>> THEN <<[medication |-> m, demand |-> d]>>
    ELSE IF Head(entries).medication = m
         THEN <<[medication |-> m, demand |-> Head(entries).demand + d]>> \o Tail(entries)
         ELSE <<Head(entries)>> \o AddDemand(Tail(entries), m, d)

RECURSIVE AggregateForecastDemandFrom(_, _)
AggregateForecastDemandFrom(entries, recs) ==
    IF recs = <<>> THEN entries
    ELSE AggregateForecastDemandFrom(
             AddDemand(entries, Head(recs).medication, Head(recs).predicted_demand),
             Tail(recs))

AggregateForecastDemand(f) == AggregateForecastDemandFrom(<<>>, f.medication_forecasts)

-----------------------------------------------------------------------------
(* OptimizationAgent._optimize_medication                                  *)
(* fd: forecasted_demand in 1/DemandScale units; hz: forecast_horizon_days *)
(* daily_demand = fd / (DemandScale * hz)                                  *)

\* safety_stock = int(daily_demand * safety_stock_days)
SafetyStock(fd, hz) == TruncDiv(fd * safety_stock_days, DemandScale * hz)

\* reorder_point = int(daily_demand * lead_time_days + safety_stock)
ReorderPoint(fd, hz, lead) ==
    TruncDiv(fd * lead + SafetyStock(fd, hz) * DemandScale * hz, DemandScale * hz)

\* days_of_supply = current_quantity / daily_demand if daily_demand > 0 else 999
DaysOfSupply(cq, fd, hz) ==
    IF fd > 0 THEN <<cq * DemandScale * hz, fd>> ELSE <<DaysOfSupplySentinel, 1>>

\* needs_order = current_quantity <= reorder_point
NeedsOrder(cq, fd, hz, lead) == cq <= ReorderPoint(fd, hz, lead)

BelowDays(dos, days) == RatLess(dos, <<days, 1>>)

\* an order computed for every medication that has an inventory
OrderTriggeredAlways(cq, fd, hz, lead) == TRUE

\* if needs_order or days_of_supply < high_priority_threshold_days
OrderTriggered(cq, fd, hz, lead) ==
    \/ NeedsOrder(cq, fd, hz, lead)
    \/ BelowDays(DaysOfSupply(cq, fd, hz), high_priority_threshold_days)

\* int(math.sqrt(2 * annual_demand * order_fixed_cost / holding_cost_per_unit)),
\* annual_demand = daily_demand * 365,
\* holding_cost_per_unit = unit_cost * carrying_cost_rate; unit_cost = <<sum, lots>>.
EoqQuantity(fd, hz, unit_cost) ==
    IF unit_cost[1] * carrying_cost_rate_pct > 0
    THEN ISqrt(MulDiv(fd,
                      2 * 365 * order_fixed_cost * unit_cost[2] * CostScale * 100,
                      DemandScale * hz * unit_cost[1] * carrying_cost_rate_pct))
    ELSE TruncDiv(fd, DemandScale)          \* eoq = forecasted_demand

\* order_quantity before the minimum and the case rounding
RawOrderQuantity(cq, fd, hz, unit_cost, use_eoq) ==
    IF use_eoq THEN EoqQuantity(fd, hz, unit_cost)
    ELSE TruncDiv(fd + (SafetyStock(fd, hz) - cq) * DemandScale, DemandScale)

\* the order quantity left as it is, below the minimum or not
OrderQuantityUnfloored(q) == q

\* order_quantity = max(order_quantity, min_order_quantity)
FlooredOrderQuantity(q) == Max2(q, min_order_quantity)

\* recommended_cases = math.ceil(order_quantity / case_size), in both branches
RecommendedCases(q, case_size) == CeilDiv(q, case_size)

\* a rounding branch that leaves order_quantity as it was
RoundToCasesSkipped(q, case_size) == q

\* the rounding branch: order_quantity = recommended_cases * case_size
RoundToCases(q, case_size) == RecommendedCases(q, case_size) * case_size

CaseRounded(q, case_size, round_to_case_size) ==
    IF round_to_case_size /\ case_size > 1 THEN RoundToCases(q, case_size) ELSE q

\* a tiering whose first tier is missing
PriorityWithoutCritical(dos, needs_order) ==
    IF BelowDays(dos, high_priority_threshold_days) THEN "high"
    ELSE IF needs_order THEN "medium"
    ELSE "low"

PriorityOf(dos, needs_order) ==
    IF BelowDays(dos, critical_threshold_days) THEN "critical"
    ELSE IF BelowDays(dos, high_priority_threshold_days) THEN "high"
    ELSE IF needs_order THEN "medium"
    ELSE "low"

ReasonsOf(dos, needs_order, units_expiring_soon) ==
    <<(IF BelowDays(dos, critical_threshold_days) THEN "stockout_risk"
       ELSE IF BelowDays(dos, high_priority_threshold_days) THEN "reorder_point"
       ELSE "routine")>>
    \o (IF units_expiring_soon > 0 THEN <<"expiring_soon">> ELSE <<>>)

\* The outcome of _optimize_medication: a recommendation, None, or the exception
\* raised on the way.
OptimizeMedication(inv, fd, hz, cfg) ==
    LET cq == inv.current_quantity
        safety_stock == SafetyStock(fd, hz)
        reorder_point == ReorderPoint(fd, hz, inv.lead_time_days)
        dos == DaysOfSupply(cq, fd, hz)
        needs_order == NeedsOrder(cq, fd, hz, inv.lead_time_days)
        floored == FlooredOrderQuantity(
                       RawOrderQuantity(cq, fd, hz, inv.unit_cost, cfg.use_eoq))
        order_quantity == CaseRounded(floored, inv.case_size, cfg.round_to_case_size)
        \* target_stock = forecasted_demand + safety_stock, in 1/DemandScale units
        target_stock == fd + safety_stock * DemandScale
    IN  IF ~OrderTriggered(cq, fd, hz, inv.lead_time_days)
        THEN [kind |-> "none"]
        ELSE IF inv.case_size = 0
        THEN [kind |-> "raise", error |-> "ZeroDivisionError", at |-> "recommended_cases"]
        ELSE IF reorder_point = 0
        \* stockout_risk = max(0, min(1, 1 - (current_quantity / reorder_point)))
        THEN [kind |-> "raise", error |-> "ZeroDivisionError", at |-> "stockout_risk"]
        ELSE IF target_stock = 0
        THEN [kind |-> "raise", error |-> "ZeroDivisionError", at |-> "overstock_risk"]
        ELSE [kind |-> "recommendation",
              medication |-> inv.medication,
              current_quantity |-> cq,
              forecasted_demand_30d |-> fd,
              recommended_order_quantity |-> order_quantity,
              recommended_cases |-> RecommendedCases(floored, inv.case_size),
              reorder_point |-> reorder_point,
              safety_stock |-> safety_stock,
              \* order_quantity * unit_cost, <<cents * lots, lots>>
              order_cost |-> <<order_quantity * inv.unit_cost[1], inv.unit_cost[2]>>,
              days_of_supply |-> DaysOfSupply(cq + order_quantity, fd, hz),
              priority |-> PriorityOf(dos, needs_order),
              reasons |-> ReasonsOf(dos, needs_order, inv.units_expiring_soon),
              urgency_score |->
                  IF fd > 0
                  THEN ClampUnit(high_priority_threshold_days * fd - dos[1],
                                 high_priority_threshold_days * fd)
                  ELSE ClampUnit(high_priority_threshold_days - DaysOfSupplySentinel,
                                 high_priority_threshold_days),
              stockout_risk |->
                  IF reorder_point > 0
                  THEN ClampUnit(reorder_point - cq, reorder_point)
                  ELSE ClampUnit(cq - reorder_point, -reorder_point),
              overstock_risk |->
                  IF target_stock > 0
                  THEN ClampUnit((cq + order_quantity) * DemandScale - target_stock,
                                 target_stock)
                  ELSE ClampUnit(target_stock - (cq + order_quantity) * DemandScale,
                                 -target_stock)]

-----------------------------------------------------------------------------
(* OptimizationAgent._generate_summary                                     *)

RECURSIVE InventoryValue(_, _)
\* sum(inv.current_quantity * inv.unit_cost for inv in current_inventory.values())
InventoryValue(inventory, meds) ==
    IF meds = {} THEN <<0, 1>>
    ELSE LET m == CHOOSE x \in meds : TRUE
         IN  RatAdd(<<inventory[m].current_quantity * inventory[m].unit_cost[1],
                      inventory[m].unit_cost[2]>>,
                    InventoryValue(inventory, meds \ {m}))

AtRisk(o) == RatLess(<<1, 2>>, o.stockout_risk)       \* o.stockout_risk > 0.5

GenerateOptSummary(recs, inventory, demand) ==
    LET IsCritical(o) == o.priority = "critical"
        IsHigh(o) == o.priority = "high"
    IN  [total_recommendations |-> Len(recs),
         critical_orders |-> Len(SelectSeq(recs, IsCritical)),
         high_priority_orders |-> Len(SelectSeq(recs, IsHigh)),
         total_order_cost |-> RatSeqSum([i \in 1..Len(recs) |-> recs[i].order_cost]),
         medications_at_risk |-> Len(SelectSeq(recs, AtRisk)),
         \* np.mean of the stockout risks: <<their sum, their number>>, 0.0 if none
         average_stockout_risk |->
             IF recs = <<>> THEN <<<<0, 1>>, 1>>
             ELSE <<RatSeqSum([i \in 1..Len(recs) |-> recs[i].stockout_risk]), Len(recs)>>,
         total_current_value |-> InventoryValue(inventory, DOMAIN inventory),
         total_forecasted_demand |->
             SeqSum([i \in 1..Len(demand) |-> demand[i].demand])]

-----------------------------------------------------------------------------
(* OptimizationAgent.execute, step by step                                 *)

OptBuildInventoryStatus ==
    /\ optPc = "start"
    /\ current_inventory' = BuildInventoryStatus(inventory_data, medication_db, today)
    /\ optPc' = "inventory_built"
    /\ UNCHANGED <<today, inventory_data, medication_db, forecast, optConfig,
                   demand_by_medication, optIndex, order_recommendations,
                   optSummary, optError>>
    /\ UNCHANGED nonOptVars

OptAggregateForecastDemand ==
    /\ optPc = "inventory_built"
    /\ demand_by_medication' = AggregateForecastDemand(forecast)
    /\ optIndex' = 0
    /\ optPc' = "loop"
    /\ UNCHANGED <<today, inventory_data, medication_db, forecast, optConfig,
                   current_inventory, order_recommendations, optSummary, optError>>
    /\ UNCHANGED nonOptVars

NextMedication == demand_by_medication[optIndex + 1]

\* a skip that also forgets the demand of the medication it skips
OptSkipMedicationDroppingDemand ==
    /\ optPc = "loop"
    /\ optIndex < Len(demand_by_medication)
    /\ NextMedication.medication \notin DOMAIN current_inventory
    /\ demand_by_medication' =
           SubSeq(demand_by_medication, 1, optIndex)
               \o SubSeq(demand_by_medication, optIndex + 2, Len(demand_by_medication))
    /\ UNCHANGED <<today, inventory_data, medication_db, forecast, optConfig, optPc,
                   current_inventory, optIndex, order_recommendations,
                   optSummary, optError>>
    /\ UNCHANGED nonOptVars

\* inventory = current_inventory.get(medication); if inventory is None: continue
OptSkipMedication ==
    /\ optPc = "loop"
    /\ optIndex < Len(demand_by_medication)
    /\ NextMedication.medication \notin DOMAIN current_inventory
    /\ optIndex' = optIndex + 1
    /\ UNCHANGED <<today, inventory_data, medication_db, forecast, optConfig, optPc,
                   current_inventory, demand_by_medication, order_recommendations,
                   optSummary, optError>>
    /\ UNCHANGED nonOptVars

\* recommendation = self._optimize_medication(...); append it when there is one.
\* An exception leaves execute.
OptOptimizeMedication ==
    /\ optPc = "loop"
    /\ optIndex < Len(demand_by_medication)
    /\ NextMedication.medication \in DOMAIN current_inventory
    /\ LET out == OptimizeMedication(current_inventory[NextMedication.medication],
                                     NextMedication.demand,
                                     forecast.summary.forecast_horizon_days, optConfig)
       IN  /\ optIndex' = optIndex + 1
           /\ order_recommendations' =
                  IF out.kind = "recommendation"
                  THEN Append(order_recommendations, out)
                  ELSE order_recommendations
           /\ optPc' = IF out.kind = "raise" THEN "raised" ELSE optPc
           /\ optError' = IF out.kind = "raise" THEN Some(out) ELSE optError
    /\ UNCHANGED <<today, inventory_data, medication_db, forecast, optConfig,
                   current_inventory, demand_by_medication, optSummary>>
    /\ UNCHANGED nonOptVars

OptGenerateSummary ==
    /\ optPc = "loop"
    /\ optIndex = Len(demand_by_medication)
    /\ optSummary' = Some(GenerateOptSummary(order_recommendations,
                                             current_inventory, demand_by_medication))
    /\ optPc' = "done"
    /\ UNCHANGED <<today, inventory_data, medication_db, forecast, optConfig,
                   current_inventory, demand_by_medication, optIndex,
                   order_recommendations, optError>>
    /\ UNCHANGED nonOptVars

-----------------------------------------------------------------------------
(* Inputs of the optimizer runs                                            *)

MaxLots == 2
PrimaryMed == "Metformin 500mg"
SecondaryMed == "Tamiflu 75mg"
Todays == {100}
LotQuantities == {-5, 0, 2, 7, 40}
UnitCosts == {0, 250}
ExpiryOffsets == {10, 90}
\* forecasted demand of the primary medication, in 1/DemandScale units:
\* 0, 0.60, 1.50, 15.00 and 500.00 units
DemandValues == {0, 60, 150, 1500, 50000}
Horizons == {10, 30}
CaseSizes == {1, 12}

LotRow(m, q, c, e) ==
    [medication |-> m, quantity |-> q, unit_cost |-> c, expiration_date |-> e]

SeqsUpTo(S, n) == UNION {[1..k -> S] : k \in 0..n}

\* The lot rows of the primary medication at unit cost c: a lot that holds
\* units expires in 10 or in 90 days, another one in 90 days.
PrimaryLotRows(now, c) ==
    {LotRow(PrimaryMed, q, c, now + e) :
        <<q, e>> \in {x \in LotQuantities \X ExpiryOffsets :
                        x[1] > 0 \/ \A e2 \in ExpiryOffsets : e2 <= x[2]}}

\* The lots of the primary medication: up to MaxLots rows at one unit cost.
PrimaryLots(now) == UNION {SeqsUpTo(PrimaryLotRows(now, c), MaxLots) : c \in UnitCosts}

SecondaryLots == {<<>>, <<LotRow(SecondaryMed, 40, 1200, NoDate)>>}

ForecastRec(m, d) == [medication |-> m, predicted_demand |-> d]

\* The forecast records: the primary medication's demand on one day (and a
\* second day without demand), with or without a record of the secondary one,
\* before or after it.
ForecastInputs(secondary_lots) ==
    UNION {{<<ForecastRec(PrimaryMed, d), ForecastRec(PrimaryMed, 0)>>,
            <<ForecastRec(PrimaryMed, d), ForecastRec(SecondaryMed, 3000)>>} \cup
           (IF secondary_lots = <<>> THEN {}
            ELSE {<<ForecastRec(SecondaryMed, 3000), ForecastRec(PrimaryMed, d)>>}) :
           d \in DemandValues}

MedicationDbs ==
    {NoDb} \cup {Db(<<[medication |-> PrimaryMed, case_size |-> cs, lead_time_days |-> 7]>>) :
                    cs \in CaseSizes \ {DefaultCaseSize}}

OptInit ==
    /\ today \in Todays
    /\ \E p \in PrimaryLots(today), s \in SecondaryLots :
           /\ inventory_data = p \o s
           /\ forecast \in [medication_forecasts : ForecastInputs(s),
                            summary : [forecast_horizon_days : Horizons]]
    /\ medication_db \in MedicationDbs
    /\ optConfig \in [use_eoq : BOOLEAN, round_to_case_size : BOOLEAN]
    /\ optPc = "start"
    /\ current_inventory = <<>>
    /\ demand_by_medication = <<>>
    /\ optIndex = 0
    /\ order_recommendations = <<>>
    /\ optSummary = None
    /\ optError = None
    /\ ProfIdle
    /\ FcIdle
    /\ PipeIdle
    /\ AguiIdle

OptNext ==
    \/ OptBuildInventoryStatus
    \/ OptAggregateForecastDemand
    \/ OptSkipMedication
    \/ OptOptimizeMedication
    \/ OptGenerateSummary

SpecOptimizer == OptInit /\ [][OptNext]_vars

-----------------------------------------------------------------------------
(* Properties of the optimizer                                             *)

\* The inputs meet the input contract: no negative lot quantity or unit cost,
\* no negative forecast demand.
OptInputWellFormed ==
    /\ \A i \in 1..Len(inventory_data) :
          inventory_data[i].quantity >= 0 /\ inventory_data[i].unit_cost >= 0
    /\ \A i \in 1..Len(forecast.medication_forecasts) :
          forecast.medication_forecasts[i].predicted_demand >= 0

HasRecommendation(m) ==
    \E k \in 1..Len(order_recommendations) : order_recommendations[k].medication = m

RecommendationOf(m) ==
    order_recommendations[CHOOSE k \in 1..Len(order_recommendations) :
                              order_recommendations[k].medication = m]

\* The demand entries execute's loop has handled and that have an inventory.
HandledWithInventory ==
    {i \in 1..optIndex : demand_by_medication[i].medication \in DOMAIN current_inventory}

\* C1: for every medication with forecasted demand and an inventory snapshot
\* that the optimizer has handled, a recommendation exists if and only if
\* current_quantity <= reorder_point or days_of_supply < high_priority_threshold_days.
C1_RecommendationIffTriggered ==
    OptInputWellFormed =>
        \A i \in HandledWithInventory :
            LET e == demand_by_medication[i]
                inv == current_inventory[e.medication]
                cq == inv.current_quantity
                rp == ReorderPoint(e.demand, forecast.summary.forecast_horizon_days,
                                   inv.lead_time_days)
                dos == DaysOfSupply(cq, e.demand, forecast.summary.forecast_horizon_days)
            IN  HasRecommendation(e.medication)
                    <=> (cq <= rp \/ RatLess(dos, <<high_priority_threshold_days, 1>>))

\* C2: on inputs with demand >= 0, quantity >= 0 and unit cost >= 0 the
\* per-medication computation never raises: execute is never ended by an exception.
C2_NoArithmeticException ==
    OptInputWellFormed => (optPc # "raised" /\ optError = None)

\* C3: with case rounding enabled and case_size > 1, every recommendation's
\* quantity is a multiple of the case size and equals recommended_cases * case_size.
C3_CaseMultiple ==
    \A k \in 1..Len(order_recommendations) :
        LET o == order_recommendations[k]
            cs == current_inventory[o.medication].case_size
        IN  (optConfig.round_to_case_size /\ cs > 1) =>
                /\ o.recommended_order_quantity % cs = 0
                /\ o.recommended_cases * cs = o.recommended_order_quantity

\* C8: a run given an inventory lot with a negative quantity does not get past
\* reading the inventory: it ends at once with a precondition error.
C8_NegativeQuantityRejected ==
    (\E i \in 1..Len(inventory_data) : inventory_data[i].quantity < 0) =>
        \/ optPc = "start"
        \/ optPc = "raised" /\ optError # None /\ optError[1].error = "PreconditionError"

\* C3 witness: a recommendation whose quantity the case rounding raised.
C3_Witness ==
    \E k \in 1..Len(order_recommendations) :
        LET o == order_recommendations[k]
            inv == current_inventory[o.medication]
        IN  /\ optConfig.round_to_case_size
            /\ inv.case_size > 1
            /\ o.recommended_order_quantity >
                   FlooredOrderQuantity(
                       RawOrderQuantity(o.current_quantity, o.forecasted_demand_30d,
                                        forecast.summary.forecast_horizon_days, inv.unit_cost,
                                        optConfig.use_eoq))

\* The units of medication m on file that expire within 30 days of today.
UnitsExpiringWithin30Days(m) ==
    LET Expiring(r) == /\ r.medication = m
                       /\ r.expiration_date # NoDate
                       /\ r.expiration_date <= today + 30
        lots == SelectSeq(inventory_data, Expiring)
    IN  SeqSum([i \in 1..Len(lots) |-> lots[i].quantity])

\* days of supply before the order, current_quantity / daily_demand (999
\* without demand), is below the threshold of `days'
SupplyBelow(o, days) ==
    /\ o.forecasted_demand_30d > 0
    /\ o.current_quantity * DemandScale * forecast.summary.forecast_horizon_days
           < days * o.forecasted_demand_30d

\* priority and reasons of recommendation o follow the tiers
FollowsTiering(o) ==
    /\ SupplyBelow(o, critical_threshold_days) => (o.priority = "critical" /\ o.reasons[1] = "stockout_risk")
    /\ (/\ ~SupplyBelow(o, critical_threshold_days)
        /\ SupplyBelow(o, high_priority_threshold_days)) =>
           (o.priority = "high" /\ o.reasons[1] = "reorder_point")
    /\ ~SupplyBelow(o, high_priority_threshold_days) => (o.priority = "medium" /\ o.reasons[1] = "routine")
    /\ Tail(o.reasons) = IF UnitsExpiringWithin30Days(o.medication) > 0
                         THEN <<"expiring_soon">> ELSE <<>>

\* The demand entries of the scenario that the loop has handled: 10-day demand
\* of 500 units, 40 units in stock, lead time 7 days (safety-stock days are 7).
ScenarioEntries ==
    {i \in HandledWithInventory :
        /\ forecast.summary.forecast_horizon_days = 10
        /\ demand_by_medication[i].demand = 500 * DemandScale
        /\ current_inventory[demand_by_medication[i].medication].current_quantity = 40
        /\ current_inventory[demand_by_medication[i].medication].lead_time_days = 7}

\* C13 (as stated): every emitted recommendation follows the tiering, and the
\* scenario yields a critical or high recommendation with positive order cost.
C13_TieringAndScenario ==
    /\ \A k \in 1..Len(order_recommendations) : FollowsTiering(order_recommendations[k])
    /\ \A i \in ScenarioEntries :
           /\ HasRecommendation(demand_by_medication[i].medication)
           /\ RecommendationOf(demand_by_medication[i].medication).priority
                  \in {"critical", "high"}
           /\ RatLess(<<0, 1>>, RecommendationOf(demand_by_medication[i].medication).order_cost)

\* C13 (amended): every emitted recommendation follows the tiering, and the
\* scenario yields a critical or high recommendation whose order cost is
\* positive when the unit cost is positive (and zero when the unit cost is zero).
C13_TieringAndPricedScenario ==
    /\ \A k \in 1..Len(order_recommendations) : FollowsTiering(order_recommendations[k])
    /\ \A i \in ScenarioEntries :
           LET m == demand_by_medication[i].medication
           IN  /\ HasRecommendation(m)
               /\ RecommendationOf(m).priority \in {"critical", "high"}
               /\ RatLess(<<0, 1>>, RecommendationOf(m).order_cost)
                      <=> current_inventory[m].unit_cost[1] > 0

\* C13 witness: the scenario at a positive unit cost, with a lot that expires
\* within 30 days, has been given a critical recommendation for that reason too.
C13_Witness ==
    \E i \in ScenarioEntries :
        LET m == demand_by_medication[i].medication
        IN  /\ current_inventory[m].unit_cost[1] > 0
            /\ HasRecommendation(m)
            /\ RecommendationOf(m).priority = "critical"
            /\ RecommendationOf(m).reasons = <<"stockout_risk", "expiring_soon">>
            /\ RatLess(<<0, 1>>, RecommendationOf(m).order_cost)

\* daily_demand x days, in 1/(DemandScale x horizon) units, for demand entry e
DailyDemandTimes(e, days) == e.demand * days

\* a whole number q of units in the same units
WholeUnits(q) == q * DemandScale * forecast.summary.forecast_horizon_days

\* C16: for every medication the optimizer has processed, safety_stock equals
\* daily_demand x safety_stock_days and reorder_point equals daily_demand x
\* lead_time_days + safety_stock, and an order is emitted whenever
\* current_quantity is at or below that reorder point (daily demand 0.5, lead
\* time 7, safety-stock days 7: reorder point 7, so a stock of 7 gets an order).
C16_ReorderPointFormula ==
    optPc # "raised" =>
        \A i \in HandledWithInventory :
            LET e == demand_by_medication[i]
                inv == current_inventory[e.medication]
            IN  /\ WholeUnits(inv.current_quantity)
                       <= DailyDemandTimes(e, inv.lead_time_days + safety_stock_days)
                       => HasRecommendation(e.medication)
                /\ HasRecommendation(e.medication) =>
                       /\ WholeUnits(RecommendationOf(e.medication).safety_stock)
                              = DailyDemandTimes(e, safety_stock_days)
                       /\ WholeUnits(RecommendationOf(e.medication).reorder_point)
                              = DailyDemandTimes(e, inv.lead_time_days + safety_stock_days)

\* the raw quantity of recommendation o: the EOQ value, the forecasted demand
\* when the holding cost is zero, or demand + safety stock - stock without EOQ,
\* in whole units
StatedRawQuantity(o) ==
    LET inv == current_inventory[o.medication]
    IN  IF optConfig.use_eoq
        THEN (IF inv.unit_cost[1] * carrying_cost_rate_pct > 0
              THEN EoqQuantity(o.forecasted_demand_30d,
                               forecast.summary.forecast_horizon_days, inv.unit_cost)
              ELSE TruncDiv(o.forecasted_demand_30d, DemandScale))
        ELSE TruncDiv(o.forecasted_demand_30d
                          + (o.safety_stock - o.current_quantity) * DemandScale,
                      DemandScale)

\* then floored at the minimum, then rounded up to whole cases when enabled
StatedOrderQuantity(o) ==
    LET cs == current_inventory[o.medication].case_size
        floored == IF StatedRawQuantity(o) < min_order_quantity
                   THEN min_order_quantity ELSE StatedRawQuantity(o)
    IN  IF optConfig.round_to_case_size /\ cs > 1
        THEN ((floored + cs - 1) \div cs) * cs
        ELSE floored

\* C17: the recommended order quantity is the raw quantity, then floored at
\* min_order_quantity, then rounded up to a multiple of the case size when case
\* rounding is enabled; every emitted recommendation has a quantity of at least
\* min_order_quantity and is never a zero-quantity record.
C17_OrderQuantitySteps ==
    \A k \in 1..Len(order_recommendations) :
        /\ order_recommendations[k].recommended_order_quantity
               = StatedOrderQuantity(order_recommendations[k])
        /\ order_recommendations[k].recommended_order_quantity >= min_order_quantity
        /\ order_recommendations[k].recommended_order_quantity > 0

\* C17 witness: a recommendation whose raw quantity was below the minimum has
\* been floored and then rounded up to a whole case.
C17_Witness ==
    \E k \in 1..Len(order_recommendations) :
        /\ StatedRawQuantity(order_recommendations[k]) < min_order_quantity
        /\ optConfig.round_to_case_size
        /\ current_inventory[order_recommendations[k].medication].case_size > 1
        /\ order_recommendations[k].recommended_order_quantity
               = current_inventory[order_recommendations[k].medication].case_size

-----------------------------------------------------------------------------
(* PatientProfilingAgent (src/agents/patient_profiling.py)                 *)
(* Interval statistics are kept exact: an average and a standard deviation  *)
(* are in tenths of a day once rounded to one decimal, a score is in        *)
(* hundredths once rounded to two decimals.                                 *)

HIGHLY_REGULAR_STD_THRESHOLD == 30      \* 3.0 days, in tenths
REGULAR_STD_THRESHOLD == 70             \* 7.0 days, in tenths
MIN_REFILLS_FOR_PREDICTION == 3
DUE_SOON_DAYS == 7
DefaultAverageInterval == 300           \* 30.0 days, in tenths
DefaultStdDeviation == 150              \* 15.0 days, in tenths
SingleIntervalStd == 150                \* 15.0 days, in tenths
ZeroStdReplacement == 10                \* 1.0 day, in tenths
ManyRefills == 10
SeveralRefills == 6
FewRefills == 2

\* Python's ordering of the strings that occur as patient ids and medications.
SortedStrings ==
    <<"Amoxicillin 500mg", "Metformin 500mg", "P001", "P002", "Tamiflu 75mg">>
StrRank(s) == CHOOSE i \in 1..Len(SortedStrings) : SortedStrings[i] = s

\* history.sort_values("fill_date"): rows in ascending fill_date order.
RECURSIVE InsertByFillDate(_, _)
InsertByFillDate(sorted, r) ==
    IF sorted = <<>> THEN <<r>>
    ELSE IF r.fill_date < Head(sorted).fill_date THEN <<r>> \o sorted
    ELSE <<Head(sorted)>> \o InsertByFillDate(Tail(sorted), r)

RECURSIVE SortByFillDate(_)
SortByFillDate(rows) ==
    IF rows = <<>> THEN <<>>
    ELSE InsertByFillDate(SortByFillDate(SubSeq(rows, 1, Len(rows) - 1)), rows[Len(rows)])

\* history["fill_date"].diff().dt.days.dropna() of a sorted history
Intervals(history) ==
    [i \in 1..(Len(history) - 1) |-> history[i + 1].fill_date - history[i].fill_date]

\* sum over i < j of (x[i] - x[j])^2, computed as n * sum(x^2) - sum(x)^2:
\* the numerator of the sample variance times n
PairwiseSquares(x) ==
    Len(x) * SeqSum([i \in 1..Len(x) |-> x[i] * x[i]]) - SeqSum(x) * SeqSum(x)

\* round(a / b, 0) for a >= 0, b > 0, a tie going to the even neighbour
RoundHalfEven(a, b) ==
    LET q == a \div b
        r == a % b
    IN  IF 2 * r < b THEN q
        ELSE IF 2 * r > b THEN q + 1
        ELSE IF q % 2 = 0 THEN q ELSE q + 1
\* std_interval squared, in days^2, as a ratio: the sample variance of the
\* intervals, 15.0^2 when there is one interval, 1.0^2 when the deviation is 0.
StdSquared(x) ==
    IF Len(x) <= 1 THEN <<SingleIntervalStd * SingleIntervalStd, 100>>
    ELSE IF PairwiseSquares(x) = 0 THEN <<ZeroStdReplacement * ZeroStdReplacement, 100>>
    ELSE <<PairwiseSquares(x), Len(x) * (Len(x) - 1)>>

\* round(std_interval, 1) in tenths: round(10 * sqrt(v)) = (floor(sqrt(400 v)) + 1) div 2
StdTenths(x) == (ISqrt((400 * StdSquared(x)[1]) \div StdSquared(x)[2]) + 1) \div 2

\* round(avg_interval, 1) in tenths
AvgTenths(x) == RoundHalfEven(10 * SeqSum(x), Len(x))

\* cv squared as a ratio; cv = std_interval / avg_interval if avg_interval > 0 else 1.0
CvSquared(x) ==
    IF SeqSum(x) > 0
    THEN <<StdSquared(x)[1] * Len(x) * Len(x), StdSquared(x)[2] * SeqSum(x) * SeqSum(x)>>
    ELSE <<1, 1>>

\* 1.0 - cv without the clamp, in hundredths (coarse below 0)
ConsistencyUnclamped(cvsq) == 100 - ISqrt(MulDiv(cvsq[1], 10000, cvsq[2]))

\* round(max(0.0, min(1.0, 1.0 - cv)), 2) in hundredths.  For cv < 1,
\* round(100 - 100 cv) = floor((10050 - ceil(10^4 cv)) / 100).
ConsistencyScore(cvsq) ==
    IF cvsq[1] >= cvsq[2] THEN 0
    ELSE LET sq == MulDivRem(cvsq[1], 100000000, cvsq[2])
             e == ISqrt(sq[1])
             up == IF sq[2] = 0 /\ e * e = sq[1] THEN e ELSE e + 1
         IN  Min2(100, (10050 - up) \div 100)

\* _calculate_pattern, of a history sorted by fill date
CalculatePattern(history) ==
    IF Len(history) < 2
    THEN [average_interval_days |-> DefaultAverageInterval,
          std_deviation_days |-> DefaultStdDeviation,
          total_refills |-> Len(history),
          consistency_score |-> 0]
    ELSE [average_interval_days |-> AvgTenths(Intervals(history)),
          std_deviation_days |-> StdTenths(Intervals(history)),
          total_refills |-> Len(history),
          consistency_score |-> ConsistencyScore(CvSquared(Intervals(history)))]

\* _classify_behavior
\* __init__: a threshold is config.get(key, class constant), in tenths of a day
highly_regular_threshold(config) ==
    IF config.highly_regular_std_threshold # None
    THEN config.highly_regular_std_threshold[1]
    ELSE HIGHLY_REGULAR_STD_THRESHOLD
regular_threshold(config) ==
    IF config.regular_std_threshold # None
    THEN config.regular_std_threshold[1]
    ELSE REGULAR_STD_THRESHOLD

\* a classification that reads the class constants whatever the config says
ClassifyBehaviorByConstants(pattern, num_refills, config) ==
    IF num_refills < MIN_REFILLS_FOR_PREDICTION
    THEN (IF num_refills <= 1 THEN "new_patient" ELSE "insufficient_data")
    ELSE IF pattern.std_deviation_days <= HIGHLY_REGULAR_STD_THRESHOLD THEN "highly_regular"
    ELSE IF pattern.std_deviation_days <= REGULAR_STD_THRESHOLD THEN "regular"
    ELSE "irregular"

ClassifyBehavior(pattern, num_refills, config) ==
    IF num_refills < MIN_REFILLS_FOR_PREDICTION
    THEN (IF num_refills <= 1 THEN "new_patient" ELSE "insufficient_data")
    ELSE IF pattern.std_deviation_days <= highly_regular_threshold(config)
         THEN "highly_regular"
    ELSE IF pattern.std_deviation_days <= regular_threshold(config) THEN "regular"
    ELSE "irregular"

\* the confidence of a prediction, in hundredths
PredictionConfidence(pattern) ==
    IF pattern.total_refills >= ManyRefills THEN Min2(95, pattern.consistency_score + 10)
    ELSE IF pattern.total_refills >= SeveralRefills
         THEN Min2(90, pattern.consistency_score + 5)
    ELSE pattern.consistency_score

\* if earliest_date < analysis_date: earliest_date = analysis_date
ClampEarliest(earliest_date, an_date) ==
    IF earliest_date < an_date THEN an_date ELSE earliest_date

\* _predict_next_refill
PredictNextRefill(last_fill_date, pattern, an_date) ==
    LET avg_interval == pattern.average_interval_days           \* tenths
        margin == (2 * pattern.std_deviation_days) \div 10      \* int(2 * std)
        expected_date == last_fill_date + (avg_interval \div 10)
    IN  [expected_date |-> expected_date,
         confidence |-> PredictionConfidence(pattern),
         earliest_date |->
             ClampEarliest(last_fill_date + TruncDiv(avg_interval - 10 * margin, 10),
                           an_date),
         latest_date |-> last_fill_date + TruncDiv(avg_interval + 10 * margin, 10),
         days_until_expected |-> expected_date - an_date]
\* base_risk of a behaviour type, in hundredths
BaseRisk(behavior_type) ==
    CASE behavior_type = "highly_regular" -> 2
      [] behavior_type = "regular" -> 8
      [] behavior_type = "irregular" -> 20
      [] behavior_type = "new_patient" -> 35
      [] behavior_type = "insufficient_data" -> 25
      [] OTHER -> 15

\* the factor of the history length, in tenths
HistoryRiskFactor(total_refills) ==
    IF total_refills >= ManyRefills THEN 8
    ELSE IF total_refills >= SeveralRefills THEN 9
    ELSE IF total_refills <= FewRefills THEN 12
    ELSE 10

\* _calculate_lapse_risk, in hundredths:
\* round(min(1.0, max(0.0, (base + (1 - consistency) * 0.1) * factor)), 2)
CalculateLapseRisk(behavior_type, pattern) ==
    LET risk == (BaseRisk(behavior_type) * 100 + (100 - pattern.consistency_score) * 10)
                    * HistoryRiskFactor(pattern.total_refills)       \* in 10^-5
    IN  (Min2(100000, Max2(0, risk)) + 500) \div 1000

\* the rows of one (patient_id, medication) group, in file order
GroupOf(data, patient_id, medication) ==
    LET InGroup(r) == r.patient_id = patient_id /\ r.medication = medication
    IN  SelectSeq(data, InGroup)

\* prediction = None unless pattern.total_refills >= MIN_REFILLS_FOR_PREDICTION
PredictionWithTwoFills(last_fill_date, pattern, an_date) ==
    IF pattern.total_refills >= MIN_REFILLS_FOR_PREDICTION - 1
    THEN Some(PredictNextRefill(last_fill_date, pattern, an_date))
    ELSE None

PredictionFor(last_fill_date, pattern, an_date) ==
    IF pattern.total_refills >= MIN_REFILLS_FOR_PREDICTION
    THEN Some(PredictNextRefill(last_fill_date, pattern, an_date))
    ELSE None

\* _analyze_patient_medication
AnalyzePatientMedication(patient_id, medication, group, an_date, config) ==
    LET history == SortByFillDate(group)
        last_fill == history[Len(history)]
        pattern == CalculatePattern(history)
        behavior_type == ClassifyBehavior(pattern, Len(history), config)
        prediction == PredictionFor(last_fill.fill_date, pattern, an_date)
    IN  [patient_id |-> patient_id,
         medication |-> medication,
         behavior_type |-> behavior_type,
         pattern |-> pattern,
         prediction |-> prediction,
         last_fill_date |-> last_fill.fill_date,
         last_quantity |-> last_fill.quantity,
         is_due_soon |->
             IF prediction # None
             THEN prediction[1].days_until_expected <= DUE_SOON_DAYS
             ELSE FALSE,
         risk_of_lapse |-> CalculateLapseRisk(behavior_type, pattern)]

\* the keys of prescription_data.groupby(["patient_id", "medication"]), sorted
KeyBefore(a, b) ==
    \/ StrRank(a[1]) < StrRank(b[1])
    \/ a[1] = b[1] /\ StrRank(a[2]) < StrRank(b[2])

RECURSIVE SortKeys(_)
SortKeys(K) ==
    IF K = {} THEN <<>>
    ELSE LET first == CHOOSE a \in K : \A b \in K \ {a} : KeyBefore(a, b)
         IN  <<first>> \o SortKeys(K \ {first})

GroupKeys(data) ==
    SortKeys({<<data[i].patient_id, data[i].medication>> : i \in 1..Len(data)})

\* PatientProfilingAgent.execute as a function of its arguments
\* PatientProfilingAgent(config).execute(data, an_date)
RunProfilingWith(config, data, an_date) ==
    LET keys == GroupKeys(data)
        profs == [i \in 1..Len(keys) |->
                     AnalyzePatientMedication(keys[i][1], keys[i][2],
                         GroupOf(data, keys[i][1], keys[i][2]), an_date, config)]
        Due(pr) == pr.is_due_soon
    IN  [profiles |-> profs,
         total_patients |-> Cardinality({data[i].patient_id : i \in 1..Len(data)}),
         total_patient_medications |-> Len(profs),
         patients_due_soon |-> Len(SelectSeq(profs, Due)),
         analysis_date |-> an_date]

\* PatientProfilingAgent().execute(data, an_date): no config given
RunProfiling(data, an_date) ==
    RunProfilingWith([highly_regular_std_threshold |-> None, regular_std_threshold |-> None],
                     data, an_date)

-----------------------------------------------------------------------------
(* PatientProfilingAgent.execute, step by step                             *)

ProfGroupBy ==
    /\ profPc = "start"
    /\ profGroups' = GroupKeys(prescription_data)
    /\ profIndex' = 0
    /\ profPc' = "loop"
    /\ UNCHANGED <<profConfig, prescription_data, analysis_date, profiles, profResult>>
    /\ UNCHANGED nonProfVars

ProfAnalyze ==
    /\ profPc = "loop"
    /\ profIndex < Len(profGroups)
    /\ LET key == profGroups[profIndex + 1]
       IN  profiles' = Append(profiles,
               AnalyzePatientMedication(key[1], key[2],
                   GroupOf(prescription_data, key[1], key[2]), analysis_date,
                   profConfig))
    /\ profIndex' = profIndex + 1
    /\ UNCHANGED <<profConfig, prescription_data, analysis_date, profPc, profGroups,
                   profResult>>
    /\ UNCHANGED nonProfVars

ProfReturn ==
    /\ profPc = "loop"
    /\ profIndex = Len(profGroups)
    /\ profResult' =
           Some([profiles |-> profiles,
                 total_patients |->
                     Cardinality({prescription_data[i].patient_id :
                                     i \in 1..Len(prescription_data)}),
                 total_patient_medications |-> Len(profiles),
                 patients_due_soon |->
                     LET Due(pr) == pr.is_due_soon IN Len(SelectSeq(profiles, Due)),
                 analysis_date |-> analysis_date])
    /\ profPc' = "done"
    /\ UNCHANGED <<profConfig, prescription_data, analysis_date, profGroups, profIndex,
                   profiles>>
    /\ UNCHANGED nonProfVars
-----------------------------------------------------------------------------
(* Inputs of the profiler runs                                             *)

MaxFills == 10
FirstFillDate == 1000
IntervalValues == {0, 25, 30, 90}
AnalysisOffsets == {0, 20, 45, 200}
ProfPatient == "P001"
OtherPatient == "P002"
OtherMed == "Amoxicillin 500mg"

FillRow(p, m, d, q) == [patient_id |-> p, medication |-> m, fill_date |-> d, quantity |-> q]

\* the days between fill i and fill i + 1: a pattern of three intervals, repeated
IntervalAt(pat, i) == pat[((i - 1) % 3) + 1]

RECURSIVE FillDateAt(_, _)
FillDateAt(pat, i) ==
    IF i <= 1 THEN FirstFillDate ELSE FillDateAt(pat, i - 1) + IntervalAt(pat, i - 1)

\* n fills of the primary medication by one patient, oldest first
HistoryRows(n, pat, q) ==
    [i \in 1..n |-> FillRow(ProfPatient, PrimaryMed, FillDateAt(pat, i), q)]

Reverse(s) == [i \in 1..Len(s) |-> s[Len(s) + 1 - i]]

\* another patient's three monthly fills of another medication
OtherRows ==
    [i \in 1..3 |-> FillRow(OtherPatient, OtherMed, FirstFillDate + 30 * (i - 1), 30)]

\* The files: the history oldest first and alone; newest first and followed by
\* the other patient's rows; preceded by them.
ProfLayouts == {"alone", "newest_first", "after_other"}

PrescriptionFile(layout, rows) ==
    CASE layout = "alone" -> rows
      [] layout = "newest_first" -> Reverse(rows) \o OtherRows
      [] OTHER -> OtherRows \o rows

\* The interval patterns: every triple of the interval values, and the
\* intervals of fills on days 0, 30, 61 and 89.
IntervalPatterns == [1..3 -> IntervalValues] \cup {<<30, 31, 28>>}

\* The configs: none; the highly-regular threshold set to 2.0 days; both
\* thresholds set, to 2.0 and 3.0 days.
ProfConfigs ==
    {[highly_regular_std_threshold |-> None, regular_std_threshold |-> None],
     [highly_regular_std_threshold |-> Some(20), regular_std_threshold |-> None],
     [highly_regular_std_threshold |-> Some(20), regular_std_threshold |-> Some(30)]}

ProfInit ==
    /\ \E n \in 1..MaxFills, pat \in IntervalPatterns, layout \in ProfLayouts,
          off \in AnalysisOffsets :
           /\ prescription_data =
                  PrescriptionFile(layout,
                      HistoryRows(n, pat, IF layout = "after_other" THEN -5 ELSE 30))
           /\ analysis_date = FillDateAt(pat, n) + off
    /\ profConfig \in ProfConfigs
    /\ profPc = "start"
    /\ profGroups = <<>>
    /\ profIndex = 0
    /\ profiles = <<>>
    /\ profResult = None
    /\ OptIdle
    /\ FcIdle
    /\ PipeIdle
    /\ AguiIdle

ProfNext ==
    \/ ProfGroupBy
    \/ ProfAnalyze
    \/ ProfReturn

SpecProfiler == ProfInit /\ [][ProfNext]_vars

-----------------------------------------------------------------------------
(* Properties of the profiler                                              *)

ProfilesWithPrediction == {i \in 1..Len(profiles) : profiles[i].prediction # None}

\* C4: every prediction has earliest_date <= expected_date <= latest_date and
\* earliest_date >= analysis_date, overdue patients included.
C4_PredictionWindowOrdered ==
    \A i \in ProfilesWithPrediction :
        LET pr == profiles[i].prediction[1]
        IN  /\ pr.earliest_date <= pr.expected_date
            /\ pr.expected_date <= pr.latest_date
            /\ pr.earliest_date >= analysis_date

\* C6: every profile has 0 <= consistency_score <= 1, 0 <= lapse risk <= 1 and,
\* when it has a prediction, 0 <= confidence <= 1 (scores in hundredths).
C6_ScoresInUnitInterval ==
    \A i \in 1..Len(profiles) :
        /\ profiles[i].pattern.consistency_score \in 0..100
        /\ profiles[i].risk_of_lapse \in 0..100
        /\ profiles[i].prediction # None =>
               profiles[i].prediction[1].confidence \in 0..100

\* C6 witness: a profile of an erratic history (deviation above the average,
\* consistency clamped to 0) whose prediction carries a boosted confidence.
C6_Witness ==
    \E i \in ProfilesWithPrediction :
        /\ profiles[i].pattern.consistency_score = 0
        /\ profiles[i].pattern.std_deviation_days > profiles[i].pattern.average_interval_days
        /\ profiles[i].prediction[1].confidence > 0

\* the fills of a profile's pair in the prescription data
FillsOf(pr) == Len(GroupOf(prescription_data, pr.patient_id, pr.medication))

\* C7: a profile carries a prediction if and only if its pair has at least 3
\* fills; with 2 fills or fewer it has none and its due-soon flag is false.
C7_PredictionIffThreeFills ==
    \A i \in 1..Len(profiles) :
        /\ (profiles[i].prediction # None) <=> (FillsOf(profiles[i]) >= 3)
        /\ FillsOf(profiles[i]) <= 2 =>
               (profiles[i].prediction = None /\ ~profiles[i].is_due_soon)

\* C7 witness: a returned result holding a profile of exactly 2 fills without
\* a prediction and a profile of exactly 3 fills with one.
C7_Witness ==
    /\ profPc = "done"
    /\ \E i, j \in 1..Len(profiles) :
           /\ FillsOf(profiles[i]) = 2 /\ profiles[i].prediction = None
           /\ FillsOf(profiles[j]) = 3 /\ profiles[j].prediction # None
\* the thresholds in force, in tenths of a day: the configured value when the
\* config supplies one, else the default of 3 and of 7 days
HighlyRegularInForce ==
    IF profConfig.highly_regular_std_threshold # None
    THEN profConfig.highly_regular_std_threshold[1] ELSE 30
RegularInForce ==
    IF profConfig.regular_std_threshold # None
    THEN profConfig.regular_std_threshold[1] ELSE 70

\* C14: the behaviour class of every profile is new_patient for at most one
\* fill, insufficient_data for exactly two fills, and otherwise highly_regular
\* when the interval standard deviation is within the highly-regular threshold,
\* regular when it is within the regular threshold, else irregular; a threshold is
\* the configured value when the config supplies one, else the default.
C14_BehaviorClass ==
    \A i \in 1..Len(profiles) :
        profiles[i].behavior_type =
            IF FillsOf(profiles[i]) <= 1 THEN "new_patient"
            ELSE IF FillsOf(profiles[i]) = 2 THEN "insufficient_data"
            ELSE IF profiles[i].pattern.std_deviation_days <= HighlyRegularInForce
                 THEN "highly_regular"
            ELSE IF profiles[i].pattern.std_deviation_days <= RegularInForce
                 THEN "regular"
            ELSE "irregular"

\* C14 witness: under a config that sets only the highly-regular threshold, to
\* 2.0 days, a pair whose deviation lies between 2.0 and 3.0 days has been
\* classified regular, and a pair with a single fill new_patient.
C14_Witness ==
    /\ profPc = "done"
    /\ profConfig.highly_regular_std_threshold = Some(20)
    /\ profConfig.regular_std_threshold = None
    /\ \E i \in 1..Len(profiles) :
           /\ FillsOf(profiles[i]) >= 3
           /\ profiles[i].pattern.std_deviation_days > 20
           /\ profiles[i].pattern.std_deviation_days <= 30
           /\ profiles[i].behavior_type = "regular"

\* C18: the confidence of a prediction is the consistency score, plus 0.10 when
\* the pair has at least 6 fills, plus a further 0.05 (0.15 in all) when it has
\* at least 10 fills, capped at 0.95 in every case.
C18_ConfidenceBoost ==
    \A i \in 1..Len(profiles) :
        profiles[i].prediction # None =>
            profiles[i].prediction[1].confidence =
                Min2(95, profiles[i].pattern.consistency_score
                             + (IF FillsOf(profiles[i]) >= 10 THEN 15
                                ELSE IF FillsOf(profiles[i]) >= 6 THEN 10
                                ELSE 0))

\* the days between the first and the last fill of a profile's pair: the sum of
\* its inter-fill intervals
FillSpanOf(pr) ==
    LET rows == GroupOf(prescription_data, pr.patient_id, pr.medication)
        days == {rows[i].fill_date : i \in 1..Len(rows)}
    IN  (CHOOSE d \in days : \A e \in days : e <= d)
            - (CHOOSE d \in days : \A e \in days : d <= e)

\* the pair of the scenario: fills on days 0, 30, 61 and 89 after the first
InScenarioP001(pr) ==
    LET rows == GroupOf(prescription_data, pr.patient_id, pr.medication)
    IN  /\ Len(rows) = 4
        /\ {rows[i].fill_date : i \in 1..4}
               = {FirstFillDate, FirstFillDate + 30, FirstFillDate + 61, FirstFillDate + 89}

\* C19: the expected next-fill date is the last fill date plus the average
\* inter-fill interval rounded to the nearest whole day (at most half a day from
\* the average); for fills on days 0, 30, 61, 89 the profile is highly_regular
\* (under the default thresholds), the expected date is day 119 and the
\* confidence is at least 0.85.
C19_ExpectedDateRounded ==
    \A i \in 1..Len(profiles) :
        profiles[i].prediction # None =>
            LET pr == profiles[i]
                n == FillsOf(pr) - 1
                days == pr.prediction[1].expected_date - pr.last_fill_date
            IN  /\ 2 * (days * n - FillSpanOf(pr)) <= n
                /\ 2 * (FillSpanOf(pr) - days * n) <= n
                /\ InScenarioP001(pr) =>
                       /\ profConfig.highly_regular_std_threshold = None
                              => pr.behavior_type = "highly_regular"
                       /\ pr.prediction[1].expected_date = FirstFillDate + 119
                       /\ pr.prediction[1].confidence >= 85


\* C27: at one consistency score the confidence does not go down as fills are
\* added: the confidence of every prediction is at least the confidence that
\* the same pattern gets with any smaller number of fills that still yields a
\* prediction.
C27_ConfidenceMonotoneInFills ==
    \A i \in ProfilesWithPrediction :
        \A fewer \in MIN_REFILLS_FOR_PREDICTION..(profiles[i].pattern.total_refills - 1) :
            PredictionConfidence([profiles[i].pattern EXCEPT !.total_refills = fewer])
                <= profiles[i].prediction[1].confidence
-----------------------------------------------------------------------------
(* ExternalSignals (src/schemas/external_signals.py)                       *)
(* A multiplier is a ratio in lowest terms.                                *)

\* base of get_demand_multiplier, in hundredths
FluBase(level) ==
    IF level <= 3 THEN 100
    ELSE IF level <= 6 THEN 100 + (level - 3) * 15
    ELSE 145 + (level - 6) * 20

\* trend_adjustment, in hundredths
TrendAdjustment(trend) ==
    CASE trend = "rapid_increase" -> 120
      [] trend = "increasing" -> 110
      [] trend = "stable" -> 100
      [] trend = "decreasing" -> 95
      [] trend = "rapid_decrease" -> 90

\* The products base * trend_adjustment that lie on a decimal tie x.xx5 and
\* whose binary floating-point value is above it: round(., 2) takes these up,
\* the other ties down.
TiesRoundedUp == {<<8, "increasing">>, <<8, "rapid_decrease">>, <<10, "increasing">>}

\* get_demand_multiplier without the trend adjustment
FluDemandMultiplierUntrended(flu) == FluBase(flu.level)

\* FluActivity.get_demand_multiplier: round(base * trend_adjustment, 2), in hundredths
FluDemandMultiplier(flu) ==
    LET p == FluBase(flu.level) * TrendAdjustment(flu.trend)       \* in 10^-4
    IN  IF p % 100 = 50
        THEN (p \div 100) + (IF <<flu.level, flu.trend>> \in TiesRoundedUp THEN 1 ELSE 0)
        ELSE (p + 50) \div 100

\* WeatherData.get_cold_flu_multiplier, in hundredths
ColdFluMultiplier(w) ==
    100 + (IF w.temperature_avg_f < 32 THEN 30
           ELSE IF w.temperature_avg_f < 45 THEN 15 ELSE 0)
        + (IF w.is_cold_snap THEN 20 ELSE 0)
        + (IF w.humidity_percent > 80 THEN 5 ELSE 0)

-----------------------------------------------------------------------------
(* ForecastingAgent (src/agents/forecasting.py)                            *)
(* A dict is the sequence of its [key, value] items in insertion order.    *)

RECURSIVE DictGet(_, _, _)
DictGet(d, k, default) ==
    IF d = <<>> THEN default
    ELSE IF Head(d).key = k THEN Head(d).value
    ELSE DictGet(Tail(d), k, default)

RECURSIVE DictPut(_, _, _)
DictPut(d, k, v) ==
    IF d = <<>> THEN <<[key |-> k, value |-> v]>>
    ELSE IF Head(d).key = k THEN <<[key |-> k, value |-> v]>> \o Tail(d)
    ELSE <<Head(d)>> \o DictPut(Tail(d), k, v)

DictKeys(d) == [i \in 1..Len(d) |-> d[i].key]

\* a window that runs one day past the horizon
EndDateAfterHorizon(start_date, cfg) == start_date + cfg.forecast_horizon_days

\* end_date = start_date + timedelta(days=forecast_horizon_days - 1)
EndDate(start_date, cfg) == start_date + cfg.forecast_horizon_days - 1

\* _aggregate_patient_demand: demand_by_med[medication][refill_date] += last_quantity
\* for the profiles, in order, whose prediction falls in the window
RECURSIVE AggregatePatientDemandFrom(_, _, _, _)
AggregatePatientDemandFrom(demand_by_med, profs, start_date, end_date) ==
    IF profs = <<>> THEN demand_by_med
    ELSE LET profile == Head(profs)
             refill_date == profile.prediction[1].expected_date
             by_date == DictGet(demand_by_med, profile.medication, <<>>)
         IN  AggregatePatientDemandFrom(
                 IF profile.prediction # None
                    /\ start_date <= refill_date /\ refill_date <= end_date
                 THEN DictPut(demand_by_med, profile.medication,
                              DictPut(by_date, refill_date,
                                      DictGet(by_date, refill_date, 0)
                                          + profile.last_quantity))
                 ELSE demand_by_med,
                 Tail(profs), start_date, end_date)

\* the aggregation over a window that also takes the day after end_date
AggregatePatientDemandPastEnd(result, start_date, end_date) ==
    AggregatePatientDemandFrom(<<>>, result.profiles, start_date, end_date + 1)

AggregatePatientDemand(result, start_date, end_date) ==
    AggregatePatientDemandFrom(<<>>, result.profiles, start_date, end_date)

\* multipliers[category] = multipliers.get(category, 1.0) * 1.2, category by category
RECURSIVE BoostCategories(_, _)
BoostCategories(mult, categories) ==
    IF categories = <<>> THEN mult
    ELSE BoostCategories(
             DictPut(mult, Head(categories),
                     RatMul(DictGet(mult, Head(categories), <<1, 1>>), <<6, 5>>)),
             Tail(categories))

RECURSIVE ApplyEvents(_, _)
ApplyEvents(mult, events) ==
    IF events = <<>> THEN mult
    ELSE ApplyEvents(
             IF Head(events).expected_impact = "early_refills"
             THEN BoostCategories(mult, Head(events).affected_categories)
             ELSE mult,
             Tail(events))

\* _calculate_external_multipliers
CalculateExternalMultipliers(signals) ==
    IF signals = None THEN <<>>
    ELSE LET sig == signals[1]
             flu == IF sig.flu_activity # None
                    THEN LET flu_mult == FluDemandMultiplier(sig.flu_activity[1])
                         IN  DictPut(DictPut(<<>>, "antiviral", Rat(flu_mult, 100)),
                                     "cold_flu_otc", Rat(flu_mult * 8, 1000))
                    ELSE <<>>
             weather ==
                 IF sig.weather # None
                 THEN LET weather_mult == Rat(ColdFluMultiplier(sig.weather[1]), 100)
                          old == DictGet(flu, "cold_flu_otc", <<0, 1>>)
                      IN  DictPut(flu, "cold_flu_otc",
                                  IF RatLess(old, weather_mult) THEN weather_mult ELSE old)
                 ELSE flu
         IN  ApplyEvents(weather, sig.events)
\* The keywords of _infer_category that the lower-cased name of a medication contains.
KeywordsIn(medication) ==
    CASE medication = "Metformin 500mg" -> {"metformin"}
      [] medication = "Tamiflu 75mg" -> {"tamiflu"}
      [] medication = "Amoxicillin 500mg" -> {"amoxicillin"}
      [] medication = "Omeprazole 20mg" -> {"omeprazole"}
      [] OTHER -> {}

CategoryKeywords ==
    <<[category |-> "diabetes", words |-> {"insulin", "metformin", "glipizide"}],
      [category |-> "cardiovascular", words |-> {"lisinopril", "amlodipine", "atorvastatin"}],
      [category |-> "antiviral", words |-> {"tamiflu", "oseltamivir"}],
      [category |-> "antibiotic", words |-> {"amoxicillin", "azithromycin"}],
      [category |-> "gastrointestinal", words |-> {"omeprazole", "pantoprazole"}],
      [category |-> "thyroid", words |-> {"levothyroxine"}]>>

\* _infer_category: the first category one of whose keywords the name contains
InferCategory(medication) ==
    LET hits == {i \in 1..Len(CategoryKeywords) :
                    CategoryKeywords[i].words \cap KeywordsIn(medication) # {}}
    IN  IF hits = {} THEN "other"
        ELSE CategoryKeywords[CHOOSE i \in hits : \A j \in hits : i <= j].category

spike_threshold == <<3, 2>>                \* 1.5

\* 1.96 * 0.15 and 1.96 * 0.30, in thousandths of the predicted demand
BoundMarginWithPatients == 294
BoundMarginWithout == 588

\* a prediction that leaves the base demand as it is
PredictedDemandUnscaled(base_demand, external_multiplier) == <<base_demand, 1>>

\* predicted_demand = base_demand * external_multiplier
PredictedDemand(base_demand, external_multiplier) ==
    RatMul(<<base_demand, 1>>, external_multiplier)

\* one MedicationForecast: the body of the loop of _forecast_medication
DailyForecast(medication, by_date, mult, current_date, cfg) ==
    LET category == InferCategory(medication)
        external_multiplier == DictGet(mult, category, <<1, 1>>)
        patient_based == DictGet(by_date, current_date, 0)
        base_demand == patient_based
        predicted_demand == PredictedDemand(base_demand, external_multiplier)
        margin == IF patient_based > 0 THEN BoundMarginWithPatients
                  ELSE BoundMarginWithout
        below == RatMul(predicted_demand, <<1000 - margin, 1000>>)
    IN  [medication |-> medication,
         category |-> category,
         forecast_date |-> current_date,
         predicted_demand |-> predicted_demand,
         lower_bound |-> IF below[1] > 0 THEN below ELSE <<0, 1>>,
         upper_bound |-> RatMul(predicted_demand, <<1000 + margin, 1000>>),
         base_demand |-> base_demand,
         patient_based_demand |-> patient_based,
         external_multiplier |-> external_multiplier,
         confidence |-> IF patient_based > 0 THEN 85 ELSE 60,       \* hundredths
         method |-> IF cfg.use_prophet THEN "hybrid" ELSE "patient_based",
         alerts |-> IF RatLess(RatMul(<<base_demand, 1>>, spike_threshold),
                               predicted_demand)
                    THEN {"spike"} ELSE {}]

\* _forecast_medication: one record per day from start_date to end_date
ForecastMedication(medication, by_date, mult, start_date, end_date, cfg) ==
    [i \in 1..(end_date - start_date + 1) |->
        DailyForecast(medication, by_date, mult, start_date + i - 1, cfg)]

\* the categories of the records, in the order of their first record
RECURSIVE CategoriesSeen(_, _)
CategoriesSeen(seen, forecasts) ==
    IF forecasts = <<>> THEN seen
    ELSE CategoriesSeen(
             IF \E i \in 1..Len(seen) : seen[i] = Head(forecasts).category THEN seen
             ELSE Append(seen, Head(forecasts).category),
             Tail(forecasts))

\* _aggregate_by_category: one CategoryForecast per category, of the first
\* (category, forecast_date) key that the records of the category set up
AggregateByCategory(forecasts, signals) ==
    LET cats == CategoriesSeen(<<>>, forecasts)
        CategoryForecastOf(category) ==
            LET OfCategory(f) == f.category = category
                first == SelectSeq(forecasts, OfCategory)[1]
                SameKey(f) == f.category = category /\ f.forecast_date = first.forecast_date
                data == SelectSeq(forecasts, SameKey)
            IN  [category |-> category,
                 forecast_date |-> first.forecast_date,
                 total_predicted_demand |->
                     RatSeqSum([i \in 1..Len(data) |-> data[i].predicted_demand]),
                 medication_count |-> Cardinality({data[i].medication : i \in 1..Len(data)}),
                 \* np.mean(confidences): <<sum, count>>
                 average_confidence |->
                     <<SeqSum([i \in 1..Len(data) |-> data[i].confidence]), Len(data)>>,
                 trend |-> "stable",
                 flu_impact |-> /\ signals # None
                                /\ signals[1].flu_activity # None
                                /\ category \in {"antiviral", "cold_flu_otc"},
                 weather_impact |-> /\ signals # None
                                    /\ signals[1].weather # None
                                    /\ category \in {"cold_flu_otc"},
                 event_impact |-> /\ signals # None
                                  /\ \E i \in 1..Len(signals[1].events) :
                                         category \in Range(signals[1].events[i].affected_categories)]
    IN  [i \in 1..Len(cats) |-> CategoryForecastOf(cats[i])]

\* data_completeness of _generate_summary
DataCompleteness(signals) ==
    IF signals # None /\ signals[1].data_quality = "complete" THEN "complete"
    ELSE IF signals # None THEN "partial"
    ELSE "degraded"

\* _generate_summary.  np.mean of no confidences is NaN, which the
\* ForecastSummary field average_confidence (ge=0, le=1) rejects.
GenerateSummary(forecasts, start_date, cfg, signals) ==
    LET Spiking(f) == "spike" \in f.alerts
        AtShortageRisk(f) == "shortage_risk" \in f.alerts
        spike_alerts == Len(SelectSeq(forecasts, Spiking))
        shortage_risks == Len(SelectSeq(forecasts, AtShortageRisk))
    IN  IF forecasts = <<>>
        THEN [kind |-> "raise", error |-> "ValidationError", at |-> "average_confidence"]
        ELSE [kind |-> "summary",
              forecast_date |-> start_date,
              forecast_horizon_days |-> cfg.forecast_horizon_days,
              total_medications |->
                  Cardinality({forecasts[i].medication : i \in 1..Len(forecasts)}),
              total_predicted_demand |->
                  RatSeqSum([i \in 1..Len(forecasts) |-> forecasts[i].predicted_demand]),
              high_priority_alerts |-> spike_alerts + shortage_risks,
              spike_alerts |-> spike_alerts,
              shortage_risks |-> shortage_risks,
              \* np.mean of the confidences (hundredths): <<sum, count>>
              average_confidence |->
                  <<SeqSum([i \in 1..Len(forecasts) |-> forecasts[i].confidence]),
                    Len(forecasts)>>,
              data_completeness |-> DataCompleteness(signals)]
\* start_date = start_date or date.today()
StartDate(start_arg, now) == IF start_arg # None THEN start_arg[1] ELSE now

\* the forecasts of the medications of patient_demand, in the order of its keys
RECURSIVE ForecastMedications(_, _, _, _, _)
ForecastMedications(demand, mult, start_date, end_date, cfg) ==
    IF demand = <<>> THEN <<>>
    ELSE ForecastMedication(Head(demand).key, Head(demand).value, mult,
                            start_date, end_date, cfg)
         \o ForecastMedications(Tail(demand), mult, start_date, end_date, cfg)

\* ForecastingAgent.execute as a function of its arguments: the result, or the
\* exception that ends it
RunForecast(result, signals, start_arg, now, cfg) ==
    LET start_date == StartDate(start_arg, now)
        end_date == EndDate(start_date, cfg)
        forecasts == ForecastMedications(AggregatePatientDemand(result, start_date, end_date),
                                         CalculateExternalMultipliers(signals),
                                         start_date, end_date, cfg)
        summary == GenerateSummary(forecasts, start_date, cfg, signals)
    IN  IF summary.kind = "raise" THEN summary
        ELSE [kind |-> "result",
              analysis_date |-> now,
              forecast_start_date |-> start_date,
              forecast_end_date |-> end_date,
              medication_forecasts |-> forecasts,
              category_forecasts |-> AggregateByCategory(forecasts, signals),
              summary |-> summary,
              patient_profiles_count |-> result.total_patient_medications,
              external_signals_available |-> signals # None,
              method |-> IF cfg.use_prophet THEN "hybrid" ELSE "patient_based"]

-----------------------------------------------------------------------------
(* ForecastingAgent.execute, step by step                                  *)

FcAggregatePatientDemand ==
    /\ fcPc = "start"
    /\ patient_demand' =
           AggregatePatientDemand(patient_profiles, StartDate(fcStartArg, fcToday),
                                  EndDate(StartDate(fcStartArg, fcToday), fcConfig))
    /\ fcPc' = "aggregated"
    /\ UNCHANGED <<patient_profiles, external_signals, fcStartArg, fcToday, fcConfig,
                   multipliers, fcIndex, medication_forecasts, category_forecasts,
                   fcResult, fcError>>
    /\ UNCHANGED nonFcVars

FcCalculateExternalMultipliers ==
    /\ fcPc = "aggregated"
    /\ multipliers' = CalculateExternalMultipliers(external_signals)
    /\ fcIndex' = 0
    /\ fcPc' = "loop"
    /\ UNCHANGED <<patient_profiles, external_signals, fcStartArg, fcToday, fcConfig,
                   patient_demand, medication_forecasts, category_forecasts,
                   fcResult, fcError>>
    /\ UNCHANGED nonFcVars

\* forecasts = self._forecast_medication(...); medication_forecasts.extend(forecasts)
FcForecastMedication ==
    /\ fcPc = "loop"
    /\ fcIndex < Len(patient_demand)
    /\ medication_forecasts' =
           medication_forecasts \o
           ForecastMedication(patient_demand[fcIndex + 1].key,
                              patient_demand[fcIndex + 1].value, multipliers,
                              StartDate(fcStartArg, fcToday),
                              EndDate(StartDate(fcStartArg, fcToday), fcConfig), fcConfig)
    /\ fcIndex' = fcIndex + 1
    /\ UNCHANGED <<patient_profiles, external_signals, fcStartArg, fcToday, fcConfig, fcPc,
                   patient_demand, multipliers, category_forecasts, fcResult, fcError>>
    /\ UNCHANGED nonFcVars

FcAggregateByCategory ==
    /\ fcPc = "loop"
    /\ fcIndex = Len(patient_demand)
    /\ category_forecasts' = AggregateByCategory(medication_forecasts, external_signals)
    /\ fcPc' = "categories"
    /\ UNCHANGED <<patient_profiles, external_signals, fcStartArg, fcToday, fcConfig,
                   patient_demand, multipliers, fcIndex, medication_forecasts,
                   fcResult, fcError>>
    /\ UNCHANGED nonFcVars

\* the summary and the ForecastingResult; a summary that does not validate
\* ends execute with the exception
FcGenerateSummary ==
    /\ fcPc = "categories"
    /\ LET start_date == StartDate(fcStartArg, fcToday)
           summary == GenerateSummary(medication_forecasts, start_date, fcConfig,
                                      external_signals)
       IN  IF summary.kind = "raise"
           THEN /\ fcError' = Some(summary)
                /\ fcPc' = "raised"
                /\ UNCHANGED fcResult
           ELSE /\ fcResult' =
                       Some([kind |-> "result",
                             analysis_date |-> fcToday,
                             forecast_start_date |-> start_date,
                             forecast_end_date |-> EndDate(start_date, fcConfig),
                             medication_forecasts |-> medication_forecasts,
                             category_forecasts |-> category_forecasts,
                             summary |-> summary,
                             patient_profiles_count |->
                                 patient_profiles.total_patient_medications,
                             external_signals_available |-> external_signals # None,
                             method |-> IF fcConfig.use_prophet THEN "hybrid"
                                        ELSE "patient_based"])
                /\ fcPc' = "done"
                /\ UNCHANGED fcError
    /\ UNCHANGED <<patient_profiles, external_signals, fcStartArg, fcToday, fcConfig,
                   patient_demand, multipliers, fcIndex, medication_forecasts,
                   category_forecasts>>
    /\ UNCHANGED nonFcVars
-----------------------------------------------------------------------------
(* Inputs of the forecaster runs                                           *)

FcDates == {2000}
FcHorizons == {2, 9}
\* the expected refill date of a pair, relative to the analysis date
FcOffsets == {-1, 0, 2}
FcFills == {2, 3}

\* n monthly fills of 30 units, the last one 30 - d days before the date an
MonthlyRows(p, m, n, d, an) ==
    [i \in 1..n |-> FillRow(p, m, an - 30 + d - 30 * (n - i), 30)]

FluOf(level, trend) == Some([level |-> level, trend |-> trend])
WeatherOf(t, snap, h) ==
    Some([temperature_avg_f |-> t, is_cold_snap |-> snap, humidity_percent |-> h])
EventOf(impact, categories) ==
    [expected_impact |-> impact, affected_categories |-> categories]
SignalsOf(flu, weather, events, quality) ==
    Some([flu_activity |-> flu, weather |-> weather, events |-> events,
          data_quality |-> quality])

SignalBundles ==
    {None,
     SignalsOf(FluOf(8, "rapid_increase"), None, <<>>, "complete"),
     SignalsOf(FluOf(4, "increasing"), WeatherOf(30, TRUE, 85), <<>>, "partial"),
     SignalsOf(None, WeatherOf(50, FALSE, 50),
               <<EventOf("early_refills", <<"diabetes", "antiviral">>)>>, "complete"),
     SignalsOf(FluOf(8, "rapid_increase"), None,
               <<EventOf("early_refills", <<"antiviral">>),
                 EventOf("increased_demand", <<"diabetes">>)>>, "partial"),
     SignalsOf(FluOf(4, "stable"), None,
               <<EventOf("early_refills", <<"all">>),
                 EventOf("early_refills", <<"all", "diabetes">>),
                 EventOf("decrease", <<>>)>>, "complete"),
     SignalsOf(None, None, <<>>, "complete")}

FcInit ==
    /\ \E an \in FcDates, m1 \in {SecondaryMed, PrimaryMed}, m2 \in {PrimaryMed, OtherMed},
          n1 \in FcFills, n2 \in FcFills, d1 \in FcOffsets, d2 \in FcOffsets,
          given \in BOOLEAN :
           /\ patient_profiles =
                  RunProfiling(MonthlyRows(ProfPatient, m1, n1, d1, an)
                               \o MonthlyRows(OtherPatient, m2, n2, d2, an), an)
           /\ fcStartArg = IF given THEN Some(an) ELSE None
           /\ fcToday = IF given THEN an + 1 ELSE an
    /\ external_signals \in SignalBundles
    /\ fcConfig \in [forecast_horizon_days : FcHorizons, use_prophet : {TRUE}]
    /\ fcPc = "start"
    /\ patient_demand = <<>>
    /\ multipliers = <<>>
    /\ fcIndex = 0
    /\ medication_forecasts = <<>>
    /\ category_forecasts = <<>>
    /\ fcResult = None
    /\ fcError = None
    /\ OptIdle
    /\ ProfIdle
    /\ PipeIdle
    /\ AguiIdle

FcNext ==
    \/ FcAggregatePatientDemand
    \/ FcCalculateExternalMultipliers
    \/ FcForecastMedication
    \/ FcAggregateByCategory
    \/ FcGenerateSummary

SpecForecaster == FcInit /\ [][FcNext]_vars

\* Forecaster runs over the whole table of flu activity: every level with every
\* trend, with and without a weather report, for one pair that is due on the
\* first day of the window.
FluLevels == 1..10
TrendDirections == {"rapid_increase", "increasing", "stable", "decreasing", "rapid_decrease"}

FluGridInit ==
    /\ \E an \in FcDates :
           /\ patient_profiles =
                  RunProfiling(MonthlyRows(ProfPatient, SecondaryMed, 3, 0, an), an)
           /\ fcStartArg = None
           /\ fcToday = an
    /\ \E level \in FluLevels, trend \in TrendDirections,
          weather \in {None, WeatherOf(30, TRUE, 85)} :
           external_signals = SignalsOf(FluOf(level, trend), weather, <<>>, "complete")
    /\ fcConfig = [forecast_horizon_days |-> 2, use_prophet |-> TRUE]
    /\ fcPc = "start"
    /\ patient_demand = <<>>
    /\ multipliers = <<>>
    /\ fcIndex = 0
    /\ medication_forecasts = <<>>
    /\ category_forecasts = <<>>
    /\ fcResult = None
    /\ fcError = None
    /\ OptIdle
    /\ ProfIdle
    /\ PipeIdle
    /\ AguiIdle

SpecFluGrid == FluGridInit /\ [][FcNext]_vars

-----------------------------------------------------------------------------
(* ExternalSignalsAgent.execute (src/agents/external_signals.py), as far as  *)
(* the forecaster reads its result.  The holidays of the look-ahead window   *)
(* are a sequence of flags, major or not, in date order; the month is that   *)
(* of the target date.                                                       *)

MaxHolidays == 2
StomachMed == "Omeprazole 20mg"

\* major holidays that list the categories the forecaster infers
GetUpcomingEventsByCategory(holidays, month, in_greece) ==
    [i \in 1..Len(holidays) |->
        IF holidays[i] THEN EventOf("early_refills", <<"diabetes", "gastrointestinal">>)
        ELSE EventOf("decrease", <<>>)]

\* _get_upcoming_events: one event per holiday, then the flu season, then the
\* tourist season
GetUpcomingEvents(holidays, month, in_greece) ==
    [i \in 1..Len(holidays) |->
        IF holidays[i] THEN EventOf("early_refills", <<"all">>)
        ELSE EventOf("decrease", <<>>)]
    \o (IF month \in {11, 12, 1, 2}
        THEN <<EventOf("increase", <<"antiviral", "cold_flu">>)>> ELSE <<>>)
    \o (IF month \in {6, 7, 8} /\ in_greece
        THEN <<EventOf("increase", <<"gastrointestinal", "suncare", "first_aid">>)>>
        ELSE <<>>)

\* execute: flu and weather are None when fetching them failed, and each
\* failure makes the data quality partial
ExternalSignalsExecute(flu, weather, holidays, month, in_greece) ==
    SignalsOf(flu, weather, GetUpcomingEvents(holidays, month, in_greece),
              IF flu = None \/ weather = None THEN "partial" ELSE "complete")

ProducedSignals ==
    {ExternalSignalsExecute(flu, weather, holidays, month, in_greece) :
        flu \in {None, FluOf(2, "stable"), FluOf(8, "rapid_increase")},
        weather \in {None, WeatherOf(30, TRUE, 85)},
        holidays \in SeqsUpTo(BOOLEAN, MaxHolidays),
        month \in {1, 4, 7},
        in_greece \in BOOLEAN}

\* Forecaster runs on the signals the agent produces, over two pairs that are
\* due in the window
ProducedSignalsInit ==
    /\ \E an \in FcDates, m1 \in {SecondaryMed, PrimaryMed}, m2 \in {StomachMed, OtherMed},
          d2 \in {0, 1} :
           /\ patient_profiles =
                  RunProfiling(MonthlyRows(ProfPatient, m1, 3, 0, an)
                               \o MonthlyRows(OtherPatient, m2, 3, d2, an), an)
           /\ fcStartArg = None
           /\ fcToday = an
    /\ external_signals \in ProducedSignals
    /\ fcConfig = [forecast_horizon_days |-> 2, use_prophet |-> TRUE]
    /\ fcPc = "start"
    /\ patient_demand = <<>>
    /\ multipliers = <<>>
    /\ fcIndex = 0
    /\ medication_forecasts = <<>>
    /\ category_forecasts = <<>>
    /\ fcResult = None
    /\ fcError = None
    /\ OptIdle
    /\ ProfIdle
    /\ PipeIdle
    /\ AguiIdle

SpecProducedSignals == ProducedSignalsInit /\ [][FcNext]_vars

-----------------------------------------------------------------------------
(* Properties of the forecaster                                            *)

\* C9: the MedicationForecast list of a returned result is sorted by
\* medication and then by forecast date.
C9_ForecastsSortedByMedicationThenDate ==
    fcPc = "done" =>
        LET f == fcResult[1].medication_forecasts
        IN  \A i, j \in 1..Len(f) :
                i < j =>
                    \/ StrRank(f[i].medication) < StrRank(f[j].medication)
                    \/ /\ f[i].medication = f[j].medication
                       /\ f[i].forecast_date <= f[j].forecast_date

\* the same bundle with complete data quality; a complete bundle for an absent one
WithCompleteSignals(signals) ==
    IF signals = None THEN SignalsOf(FluOf(8, "rapid_increase"), None, <<>>, "complete")
    ELSE Some([signals[1] EXCEPT !.data_quality = "complete"])

\* C10: a run whose signal bundle is absent or not complete, once it has
\* returned, records data_completeness partial or degraded and reports a lower
\* average confidence than the run on the same profiles with complete signals.
C10_IncompleteSignalsLowerConfidence ==
    (/\ fcPc = "done"
     /\ (external_signals = None \/ external_signals[1].data_quality # "complete")) =>
        LET summary == fcResult[1].summary
            complete == RunForecast(patient_profiles, WithCompleteSignals(external_signals),
                                    fcStartArg, fcToday, fcConfig)
        IN  /\ summary.data_completeness \in {"partial", "degraded"}
            /\ RatLess(summary.average_confidence, complete.summary.average_confidence)
\* C11: a run in which no prediction falls inside the forecast window (zero
\* predicted demand) returns a result with an empty forecast list and an average
\* confidence within [0, 1]; it does not end in an error.
C11_NoDemandReturnsResult ==
    (fcPc \in {"done", "raised"} /\ patient_demand = <<>>) =>
        /\ fcPc = "done"
        /\ fcResult[1].medication_forecasts = <<>>
        /\ RatLeq(<<0, 1>>, fcResult[1].summary.average_confidence)
        /\ RatLeq(fcResult[1].summary.average_confidence, <<100, 1>>)

\* the table of the antiviral multiplier as the specification states it, base
\* and trend factor in hundredths
StatedFluBase(level) ==
    CASE level \in 1..3 -> 100
      [] level \in 4..6 -> 100 + (level - 3) * 15
      [] level \in 7..10 -> 145 + (level - 6) * 20
StatedTrendFactor(trend) ==
    CASE trend = "rapid_increase" -> 120
      [] trend = "increasing" -> 110
      [] trend = "stable" -> 100
      [] trend = "decreasing" -> 95
      [] trend = "rapid_decrease" -> 90
\* base x trend factor of the flu activity on hand, in 10^-4
StatedFluProduct ==
    StatedFluBase(external_signals[1].flu_activity[1].level)
        * StatedTrendFactor(external_signals[1].flu_activity[1].trend)
\* the multipliers have been calculated from a bundle that reports flu activity
\* and no event
FluMultiplierCalculated ==
    /\ fcPc \in {"loop", "categories", "done", "raised"}
    /\ external_signals # None
    /\ external_signals[1].flu_activity # None
    /\ external_signals[1].events = <<>>
AntiviralMultiplier == DictGet(multipliers, "antiviral", <<1, 1>>)

\* C12 (as stated): for every level and trend the antiviral multiplier equals
\* base(level) x trend factor.
C12_MultiplierIsExactProduct ==
    FluMultiplierCalculated =>
        AntiviralMultiplier[1] * 10000 = StatedFluProduct * AntiviralMultiplier[2]

\* C12 (amended): for every level and trend the antiviral multiplier is
\* base(level) x trend factor rounded to two decimal places: a whole number of
\* hundredths at most 0.005 away from the product; level 8 with rapid_increase
\* gives 2.22.
C12_MultiplierIsRoundedProduct ==
    FluMultiplierCalculated =>
        /\ 100 % AntiviralMultiplier[2] = 0
        /\ AntiviralMultiplier[1] * 10000 - StatedFluProduct * AntiviralMultiplier[2]
               <= 50 * AntiviralMultiplier[2]
        /\ StatedFluProduct * AntiviralMultiplier[2] - AntiviralMultiplier[1] * 10000
               <= 50 * AntiviralMultiplier[2]
        /\ (/\ external_signals[1].flu_activity[1].level = 8
            /\ external_signals[1].flu_activity[1].trend = "rapid_increase")
               => AntiviralMultiplier = <<111, 50>>

\* level 4 with a decreasing trend: 1.15 x 0.95 = 1.0925 has been rounded to 1.09
C12_Witness ==
    /\ FluMultiplierCalculated
    /\ external_signals[1].flu_activity[1].level = 4
    /\ external_signals[1].flu_activity[1].trend = "decreasing"
    /\ AntiviralMultiplier = <<109, 100>>

\* the records of one medication among the forecasts made so far
ForecastsOf(medication) ==
    LET IsOfMed(f) == f.medication = medication
    IN  SelectSeq(medication_forecasts, IsOfMed)

\* the largest external multiplier among records fs
MaxMultiplierOf(fs) ==
    LET ms == {fs[i].external_multiplier : i \in 1..Len(fs)}
    IN  CHOOSE m \in ms : \A x \in ms : RatLeq(x, m)

\* C20: every MedicationForecast record has predicted_demand =
\* patient_based_demand x external multiplier of the medication's category and
\* 0 <= lower_bound <= predicted_demand <= upper_bound; the predicted demand of
\* one medication, summed over its days, does not exceed the sum of its
\* patient-based demand times the largest multiplier observed for it.
C20_ForecastRecordBounds ==
    /\ \A i \in 1..Len(medication_forecasts) :
           LET f == medication_forecasts[i]
               m == DictGet(multipliers, f.category, <<1, 1>>)
           IN  /\ f.predicted_demand[1] * m[2]
                      = f.patient_based_demand * m[1] * f.predicted_demand[2]
               /\ RatLeq(<<0, 1>>, f.lower_bound)
               /\ RatLeq(f.lower_bound, f.predicted_demand)
               /\ RatLeq(f.predicted_demand, f.upper_bound)
    /\ \A i \in 1..Len(medication_forecasts) :
           LET fs == ForecastsOf(medication_forecasts[i].medication)
           IN  RatLeq(RatSeqSum([k \in 1..Len(fs) |-> fs[k].predicted_demand]),
                      RatMul(<<SeqSum([k \in 1..Len(fs) |-> fs[k].patient_based_demand]), 1>>,
                             MaxMultiplierOf(fs)))

\* C20 witness: a record of an antiviral under flu activity, 30 units of patient
\* demand scaled by 2.22 to 66.6, strictly inside its bounds.
C20_Witness ==
    \E i \in 1..Len(medication_forecasts) :
        LET f == medication_forecasts[i]
        IN  /\ f.category = "antiviral"
            /\ f.patient_based_demand = 30
            /\ f.external_multiplier = <<111, 50>>
            /\ f.predicted_demand = <<333, 5>>
            /\ RatLess(<<0, 1>>, f.lower_bound)
            /\ RatLess(f.lower_bound, f.predicted_demand)
            /\ RatLess(f.predicted_demand, f.upper_bound)

\* C21: every medication among the forecasts has exactly one record for each
\* day of the window [start, start + horizon_days - 1] and none outside it:
\* horizon_days records, in consecutive days from the start date.
C21_OneRecordPerMedicationAndDay ==
    \A i \in 1..Len(medication_forecasts) :
        LET fs == ForecastsOf(medication_forecasts[i].medication)
        IN  /\ Len(fs) = fcConfig.forecast_horizon_days
            /\ \A k \in 1..Len(fs) :
                   fs[k].forecast_date = StartDate(fcStartArg, fcToday) + k - 1

\* C21 witness: a returned result over a nine-day window with two medications,
\* eighteen records
C21_Witness ==
    /\ fcPc = "done"
    /\ fcConfig.forecast_horizon_days = 9
    /\ Len(fcResult[1].medication_forecasts) = 18
    /\ Cardinality({fcResult[1].medication_forecasts[i].medication : i \in 1..18}) = 2

\* the profiles of a medication that have a prediction whose expected date is
\* the day d, d inside the window of the run
DueOn(profile, medication, d) ==
    /\ profile.medication = medication
    /\ profile.prediction # None
    /\ profile.prediction[1].expected_date = d
    /\ StartDate(fcStartArg, fcToday) <= d
    /\ d <= EndDate(StartDate(fcStartArg, fcToday), fcConfig)

\* the sum of last_quantity over them
StatedPatientDemand(medication, d) ==
    SeqSum([i \in 1..Len(patient_profiles.profiles) |->
               IF DueOn(patient_profiles.profiles[i], medication, d)
               THEN patient_profiles.profiles[i].last_quantity ELSE 0])

\* the days from two before the window to two after it
DaysAroundWindow ==
    (StartDate(fcStartArg, fcToday) - 2)
        .. (EndDate(StartDate(fcStartArg, fcToday), fcConfig) + 2)

\* C22: once aggregated, the patient-based demand of a medication on a day is
\* the sum of last_quantity over exactly the profiles of that medication with a
\* prediction whose expected date is that day and lies inside [start, end];
\* other profiles add nothing to any day, and every forecast record carries
\* that sum as its patient_based_demand.
C22_PatientDemandIsSumOfDueProfiles ==
    fcPc # "start" =>
        /\ \A i \in 1..Len(patient_profiles.profiles), d \in DaysAroundWindow :
               LET medication == patient_profiles.profiles[i].medication
               IN  DictGet(DictGet(patient_demand, medication, <<>>), d, 0)
                       = StatedPatientDemand(medication, d)
        /\ \A i \in 1..Len(medication_forecasts) :
               medication_forecasts[i].patient_based_demand
                   = StatedPatientDemand(medication_forecasts[i].medication,
                                         medication_forecasts[i].forecast_date)

\* C22 witness: two profiles of one medication due on the same day of the
\* window, 60 units on that day, beside a day of the window with none
C22_Witness ==
    /\ fcPc = "done"
    /\ \E i, j \in 1..Len(medication_forecasts) :
           /\ medication_forecasts[i].patient_based_demand = 60
           /\ medication_forecasts[j].medication = medication_forecasts[i].medication
           /\ medication_forecasts[j].patient_based_demand = 0
    /\ \E i, j \in 1..Len(patient_profiles.profiles) :
           /\ i # j
           /\ patient_profiles.profiles[i].medication = patient_profiles.profiles[j].medication
           /\ patient_profiles.profiles[i].prediction # None
           /\ patient_profiles.profiles[j].prediction # None

\* the bundle on hand without its events
WithoutEvents == Some([external_signals[1] EXCEPT !.events = <<>>])

\* the categories that the events of the bundle list, and those that its
\* early_refills events list
ListedCategories ==
    UNION {Range(external_signals[1].events[i].affected_categories) :
               i \in 1..Len(external_signals[1].events)}
EarlyRefillCategories ==
    UNION {Range(external_signals[1].events[i].affected_categories) :
               i \in {k \in 1..Len(external_signals[1].events) :
                          external_signals[1].events[k].expected_impact = "early_refills"}}

\* C23: once the multipliers are calculated, a category that early_refills
\* events list has its pre-event multiplier (1.0 when flu and weather set none)
\* times 1.20, and every other category has its pre-event multiplier: events
\* with another impact tag change nothing.
C23_EarlyRefillsBoostOnce ==
    (fcPc \in {"loop", "categories", "done", "raised"} /\ external_signals # None) =>
        \A category \in ListedCategories \cup Range(DictKeys(multipliers))
                            \cup {"antiviral", "cold_flu_otc"} :
            LET before == DictGet(CalculateExternalMultipliers(WithoutEvents),
                                  category, <<1, 1>>)
            IN  DictGet(multipliers, category, <<1, 1>>)
                    = IF category \in EarlyRefillCategories
                      THEN RatMul(before, <<6, 5>>)
                      ELSE before


\* C26: in a forecast that starts at the analysis date of the profiles with a
\* horizon of at least 8 days, every profile flagged is_due_soon is counted in
\* the patient demand: its expected date lies in the window and the demand of
\* its medication on that date includes its last_quantity.
C26_DueSoonCountedInDemand ==
    (/\ fcPc # "start"
     /\ fcConfig.forecast_horizon_days >= 8
     /\ StartDate(fcStartArg, fcToday) = patient_profiles.analysis_date) =>
        \A i \in 1..Len(patient_profiles.profiles) :
            LET profile == patient_profiles.profiles[i]
            IN  profile.is_due_soon =>
                    /\ DueOn(profile, profile.medication, profile.prediction[1].expected_date)
                    /\ DictGet(DictGet(patient_demand, profile.medication, <<>>),
                               profile.prediction[1].expected_date, 0)
                           >= profile.last_quantity

-----------------------------------------------------------------------------
(* The complete-analysis request: ApothecaryOrchestrator.process_request    *)
(* routes to CompleteAnalysisA2AAgent.execute_async, which chains the       *)
(* agents (src/orchestrator.py, src/agents/a2a_wrappers.py).                *)

\* Whether the name target_date is bound where execute_async passes
\* start_date=target_date: its parameter is analysis_date, and neither the
\* function nor the module binds target_date.
TargetDateBound == FALSE

\* ForecastingConfig(forecast_horizon_days=30, ...) of execute_async
PipelineForecastConfig == [forecast_horizon_days |-> 30, use_prophet |-> TRUE]
\* OptimizationConfig(..., use_eoq=True, round_to_case_size=True)
PipelineOptimizationConfig == [use_eoq |-> TRUE, round_to_case_size |-> TRUE]

\* the ForecastingResult as the optimizer reads it: the demand of a record in
\* 1/DemandScale units
OptimizerForecast(fr) ==
    [medication_forecasts |->
         [i \in 1..Len(fr.medication_forecasts) |->
             [medication |-> fr.medication_forecasts[i].medication,
              predicted_demand |->
                  (fr.medication_forecasts[i].predicted_demand[1] * DemandScale)
                      \div fr.medication_forecasts[i].predicted_demand[2]]],
     summary |-> [forecast_horizon_days |-> fr.summary.forecast_horizon_days]]

\* OptimizationAgent.execute as a function of its arguments: the result, or the
\* exception that ends it
RunOptimization(f, data, db, now, cfg) ==
    LET inventory == BuildInventoryStatus(data, db, now)
        demand == AggregateForecastDemand(f)
        outs == [i \in 1..Len(demand) |->
                    IF demand[i].medication \in DOMAIN inventory
                    THEN OptimizeMedication(inventory[demand[i].medication],
                                            demand[i].demand,
                                            f.summary.forecast_horizon_days, cfg)
                    ELSE [kind |-> "none"]]
        Raised(o) == o.kind = "raise"
        Recommended(o) == o.kind = "recommendation"
    IN  IF SelectSeq(outs, Raised) # <<>> THEN SelectSeq(outs, Raised)[1]
        ELSE [kind |-> "result",
              order_recommendations |-> SelectSeq(outs, Recommended),
              summary |-> GenerateOptSummary(SelectSeq(outs, Recommended),
                                             inventory, demand)]

\* process_request up to the call of the complete-analysis agent: the AG-UI
\* statuses STARTING, then WORKING
PipeRoute ==
    /\ pipePc = "Idle"
    /\ pipePc' = "Profiling"
    /\ pipeStatus' = "working"
    /\ UNCHANGED <<pipeError, optVars, profVars, fcVars>>
    /\ UNCHANGED aguiVars

\* Stage 1: patient_result = self.profiling_agent.execute(...)
PipeProfiling ==
    /\ pipePc = "Profiling"
    /\ profGroups' = GroupKeys(prescription_data)
    /\ profIndex' = Len(GroupKeys(prescription_data))
    /\ profiles' = RunProfilingWith(profConfig, prescription_data, analysis_date).profiles
    /\ profResult' = Some(RunProfilingWith(profConfig, prescription_data, analysis_date))
    /\ profPc' = "done"
    /\ pipePc' = "Signals"
    /\ UNCHANGED <<profConfig, prescription_data, analysis_date, pipeStatus, pipeError,
                   optVars, fcVars>>
    /\ UNCHANGED aguiVars

\* Stage 2: external_signals = self.external_agent.execute(target_date=analysis_date)
PipeExternalSignals ==
    /\ pipePc = "Signals"
    /\ external_signals' \in SignalBundles \ {None}
    /\ pipePc' = "Forecasting"
    /\ UNCHANGED <<patient_profiles, fcStartArg, fcToday, fcConfig, fcPc, patient_demand,
                   multipliers, fcIndex, medication_forecasts, category_forecasts,
                   fcResult, fcError>>
    /\ UNCHANGED <<pipeStatus, pipeError, optVars, profVars>>
    /\ UNCHANGED aguiVars

\* the value execute_async returns once both results exist
PipelineResults(fr, out) ==
    IF out.kind = "raise" THEN out
    ELSE [kind |-> "results", forecast_result |-> fr, optimization_result |-> out]

\* Stage 4 on the forecast of stage 3
OptimizeForecast(fr) ==
    IF fr.kind = "raise" THEN fr
    ELSE PipelineResults(fr, RunOptimization(OptimizerForecast(fr), inventory_data,
                                             medication_db, today,
                                             PipelineOptimizationConfig))

\* what stages 3 and 4 come to: the results, or the exception on the way
ForecastThenOptimize ==
    IF ~TargetDateBound
    THEN [kind |-> "raise", error |-> "NameError", at |-> "target_date"]
    ELSE OptimizeForecast(RunForecast(profResult[1], external_signals,
                                      Some(analysis_date), today,
                                      PipelineForecastConfig))

\* Stage 3 and, behind it, stage 4 of execute_async, and what process_request
\* does with the outcome: an exception is caught and reported with status FAILED
PipeForecastAndOptimize ==
    /\ pipePc = "Forecasting"
    /\ \E out \in {ForecastThenOptimize} :
           IF out.kind = "raise"
           THEN /\ pipePc' = "Failed"
                /\ pipeStatus' = "failed"
                /\ pipeError' = Some(out)
                /\ UNCHANGED <<optVars, fcVars>>
           ELSE /\ pipePc' = "Complete"
                /\ fcResult' = Some(out.forecast_result)
                /\ medication_forecasts' = out.forecast_result.medication_forecasts
                /\ category_forecasts' = out.forecast_result.category_forecasts
                /\ patient_profiles' = profResult[1]
                /\ fcPc' = "done"
                /\ forecast' = OptimizerForecast(out.forecast_result)
                /\ order_recommendations' = out.optimization_result.order_recommendations
                /\ optSummary' = Some(out.optimization_result.summary)
                /\ optPc' = "done"
                /\ UNCHANGED <<pipeStatus, pipeError, external_signals, fcStartArg, fcToday,
                               fcConfig, patient_demand, multipliers, fcIndex, fcError,
                               today, inventory_data, medication_db, optConfig,
                               current_inventory, demand_by_medication, optIndex,
                               optError>>
    /\ UNCHANGED profVars
    /\ UNCHANGED aguiVars

\* the day of the request: date.today(), after the fills on file
PipeTodays == {FirstFillDate + 85, FirstFillDate + 160}

\* The files the agent loads: a prescription history, an inventory, the
\* medication database.
PipeInit ==
    /\ \E n \in {2, 3, 6}, pat \in [1..3 -> {25, 30}], layout \in ProfLayouts :
           prescription_data =
               PrescriptionFile(layout,
                   HistoryRows(n, pat, IF layout = "after_other" THEN -5 ELSE 30))
    /\ today \in PipeTodays
    /\ analysis_date = today
    /\ inventory_data \in {<<LotRow(PrimaryMed, q, 250, today + 90)>> : q \in {7, 40}}
    /\ medication_db \in MedicationDbs \ {NoDb}
    /\ forecast = [medication_forecasts |-> <<>>, summary |-> [forecast_horizon_days |-> 30]]
    /\ optConfig = PipelineOptimizationConfig
    /\ optPc = "idle"
    /\ current_inventory = <<>>
    /\ demand_by_medication = <<>>
    /\ optIndex = 0
    /\ order_recommendations = <<>>
    /\ optSummary = None
    /\ optError = None
    /\ profConfig = [highly_regular_std_threshold |-> None, regular_std_threshold |-> None]
    /\ profPc = "idle"
    /\ profGroups = <<>>
    /\ profIndex = 0
    /\ profiles = <<>>
    /\ profResult = None
    /\ FcIdle
    /\ pipePc = "Idle"
    /\ pipeStatus = "none"
    /\ pipeError = None
    /\ AguiIdle

PipeNext ==
    \/ PipeRoute
    \/ PipeProfiling
    \/ PipeExternalSignals
    \/ PipeForecastAndOptimize

SpecPipeline == PipeInit /\ [][PipeNext]_vars

-----------------------------------------------------------------------------
(* Properties of the complete-analysis request                             *)

\* The loaded files meet the input contract: no negative quantity, no
\* negative unit cost.
PipeInputWellFormed ==
    /\ \A i \in 1..Len(prescription_data) : prescription_data[i].quantity >= 0
    /\ \A i \in 1..Len(inventory_data) :
          inventory_data[i].quantity >= 0 /\ inventory_data[i].unit_cost >= 0

\* C5: a complete-analysis run on well-formed prescription, inventory and
\* reference data goes through its stages to Complete; it enters Failed only
\* when the input data violates a precondition. Stated here is the safety half:
\* a run that is in Failed was given input that is not well formed.
C5_FailedOnlyOnPreconditionViolation ==
    pipePc = "Failed" => ~PipeInputWellFormed

\* Calendar days after the day of the run on which the same call could be made.
LaterDays == {today + 1, today + 65}

\* C15: a stage is a pure function of its explicit inputs: the optimizer, run
\* on another calendar day with the same inventory, forecast, medication
\* database and configuration, produces the same order recommendations, reason
\* codes included.
C15_SameRecommendationsOnAnotherDay ==
    optPc = "done" =>
        \A day \in LaterDays :
            LET again == RunOptimization(forecast, inventory_data, medication_db, day,
                                         optConfig)
            IN  /\ again.kind = "result"
                /\ again.order_recommendations = order_recommendations

\* the recommendations of one priority
WithPriority(p) ==
    {k \in 1..Len(order_recommendations) : order_recommendations[k].priority = p}

\* C29: no emitted OrderRecommendation has priority low: every one is critical,
\* high or medium, so the summary's recommendations that are neither critical
\* nor high are exactly the medium ones.
C29_NoLowPriority ==
    /\ \A k \in 1..Len(order_recommendations) :
           order_recommendations[k].priority \in {"critical", "high", "medium"}
    /\ optPc = "done" =>
           optSummary[1].total_recommendations
               - optSummary[1].critical_orders - optSummary[1].high_priority_orders
             = Cardinality(WithPriority("medium"))

\* C29 witness: a finished run whose recommendations include a medium one,
\* ordered at the reorder point with seven days of supply or more, beside a
\* critical or high one
C29_Witness ==
    /\ optPc = "done"
    /\ WithPriority("medium") # {}
    /\ WithPriority("critical") \cup WithPriority("high") # {}
    /\ \A k \in WithPriority("medium") :
           LET o == order_recommendations[k]
           IN  /\ o.current_quantity <= o.reorder_point
               /\ ~BelowDays(DaysOfSupply(o.current_quantity, o.forecasted_demand_30d,
                                          forecast.summary.forecast_horizon_days),
                             high_priority_threshold_days)

\* the forecasted demand of a medication: the sum of its forecast records
ForecastedDemandOf(m) ==
    SeqSum([i \in 1..Len(forecast.medication_forecasts) |->
               IF forecast.medication_forecasts[i].medication = m
               THEN forecast.medication_forecasts[i].predicted_demand ELSE 0])

\* the medications with positive forecasted demand and no lot row on file
UnstockedInDemand ==
    {m \in {forecast.medication_forecasts[i].medication :
                i \in 1..Len(forecast.medication_forecasts)} :
        /\ ForecastedDemandOf(m) > 0
        /\ \A i \in 1..Len(inventory_data) : inventory_data[i].medication # m}

\* the forecast without the records of a medication
ForecastWithout(m) ==
    LET IsOther(f) == f.medication # m
    IN  [forecast EXCEPT !.medication_forecasts = SelectSeq(@, IsOther)]

\* C25: a medication with positive forecasted demand and no inventory lot rows
\* never has an OrderRecommendation; in the summary of a finished run
\* critical_orders, medications_at_risk and total_current_value are what they
\* are in the run on the forecast without that medication, while
\* total_forecasted_demand is that run's total plus the medication's demand.
C25_UnstockedMedicationSkipped ==
    \A m \in UnstockedInDemand :
        /\ ~HasRecommendation(m)
        /\ optPc = "done" =>
               LET summary == optSummary[1]
                   other == RunOptimization(ForecastWithout(m), inventory_data,
                                            medication_db, today, optConfig)
               IN  /\ other.kind = "result"
                   /\ summary.critical_orders = other.summary.critical_orders
                   /\ summary.medications_at_risk = other.summary.medications_at_risk
                   /\ summary.total_current_value = other.summary.total_current_value
                   /\ summary.total_forecasted_demand
                          = other.summary.total_forecasted_demand + ForecastedDemandOf(m)

\* C25 witness: a finished run in which the secondary medication has demand and
\* no lot, beside a critical recommendation for the stocked primary one
C25_Witness ==
    /\ optPc = "done"
    /\ SecondaryMed \in UnstockedInDemand
    /\ HasRecommendation(PrimaryMed)
    /\ optSummary[1].critical_orders = 1
    /\ optSummary[1].total_forecasted_demand > ForecastedDemandOf(SecondaryMed)

-----------------------------------------------------------------------------
(* AGUIMessageHandler (src/agui_protocol.py)                               *)
(* A message is an object; `id` is its identity, the order of construction. *)
(* Each list attribute of the handler is one list object for the life of     *)
(* the handler, mutated in place and never rebound: its variable holds the   *)
(* contents of that object.  A FinalResponse keeps in `results` the          *)
(* reference it was constructed with.                                        *)

MaxCalls == 5
MaxCallbacks == 2

\* the reference to the list object self.results; no list
ResultsOfHandler == "self.results"
NoList == "none"

StatusUpdate(id) == [type |-> "status", id |-> id, results |-> NoList, suggestions |-> 0]
ResultMessage(id) == [type |-> "result", id |-> id, results |-> NoList, suggestions |-> 0]
SuggestionsMessage(id) ==
    [type |-> "suggestions", id |-> id, results |-> NoList, suggestions |-> 0]
\* FinalResponse(..., results=self.results, suggestions=suggestions, ...):
\* suggestions is the id of a SuggestionsMessage, 0 for None
FinalResponse(id, suggestions) ==
    [type |-> "final", id |-> id, results |-> ResultsOfHandler, suggestions |-> suggestions]
NoMessage == [type |-> "none", id |-> 0, results |-> NoList, suggestions |-> 0]

\* response.results as a reader of the response finds it: the contents of the
\* list object the field refers to
ResultsShownBy(response) ==
    IF response.results = ResultsOfHandler THEN results ELSE <<>>

\* the entries of the log of calls
EmitCall(message) == [call |-> "emit", message |-> message, callback |-> ""]
ClearCall == [call |-> "clear", message |-> NoMessage, callback |-> ""]
RegisterCall(callback) ==
    [call |-> "register_callback", message |-> NoMessage, callback |-> callback]

IsEmit(entry) == entry.call = "emit"
\* the identity of the next message constructed
NextId == Len(SelectSeq(aguiLog, IsEmit)) + 1

\* an emit that calls the callbacks whether streaming is enabled or not
EmitAlwaysStreaming(message) ==
    /\ messages' = Append(messages, message)
    /\ status_updates' = IF message.type = "status" THEN Append(status_updates, message)
                         ELSE status_updates
    /\ results' = IF message.type = "result" THEN Append(results, message) ELSE results
    /\ delivered' = [i \in 1..Len(callbacks) |-> Append(delivered[i], message)]
    /\ aguiLog' = Append(aguiLog, EmitCall(message))
    /\ UNCHANGED <<enable_streaming, callbacks>>

\* emit: store the message, store it by type, call every callback in order
Emit(message) ==
    /\ messages' = Append(messages, message)
    /\ status_updates' = IF message.type = "status" THEN Append(status_updates, message)
                         ELSE status_updates
    /\ results' = IF message.type = "result" THEN Append(results, message) ELSE results
    /\ delivered' = IF enable_streaming
                    THEN [i \in 1..Len(callbacks) |-> Append(delivered[i], message)]
                    ELSE delivered
    /\ aguiLog' = Append(aguiLog, EmitCall(message))
    /\ UNCHANGED <<enable_streaming, callbacks>>

CallbackNames == {"collect_message", "render_agui_message"}

AguiRegisterCallback ==
    /\ Len(aguiLog) < MaxCalls
    /\ Len(callbacks) < MaxCallbacks
    /\ \E callback \in CallbackNames :
           /\ callbacks' = Append(callbacks, callback)
           /\ aguiLog' = Append(aguiLog, RegisterCall(callback))
    /\ delivered' = Append(delivered, <<>>)
    /\ UNCHANGED <<enable_streaming, messages, status_updates, results, returned>>
    /\ UNCHANGED nonAguiVars

AguiStatus ==
    /\ Len(aguiLog) < MaxCalls
    /\ Emit(StatusUpdate(NextId))
    /\ UNCHANGED returned
    /\ UNCHANGED nonAguiVars

AguiResult ==
    /\ Len(aguiLog) < MaxCalls
    /\ Emit(ResultMessage(NextId))
    /\ UNCHANGED returned
    /\ UNCHANGED nonAguiVars

AguiSuggestions ==
    /\ Len(aguiLog) < MaxCalls
    /\ Emit(SuggestionsMessage(NextId))
    /\ UNCHANGED returned
    /\ UNCHANGED nonAguiVars

\* the SuggestionsMessage objects on hand, by id, and 0 for None
SuggestionsOnHand ==
    {0} \cup {messages[i].id : i \in {k \in 1..Len(messages) : messages[k].type = "suggestions"}}

\* finalize: build the FinalResponse, emit it, return it.  `returned` keeps the
\* object, the contents of its results when it was returned and the number of
\* calls made by then.
AguiFinalize ==
    /\ Len(aguiLog) < MaxCalls
    /\ \E suggestions \in SuggestionsOnHand :
           LET final == FinalResponse(NextId, suggestions)
           IN  /\ Emit(final)
               /\ returned' = Append(returned,
                                     [response |-> final,
                                      results_at_return |-> results',
                                      calls_at_return |-> Len(aguiLog')])
    /\ UNCHANGED nonAguiVars

\* clear: messages.clear(), status_updates.clear(), results.clear()
AguiClear ==
    /\ Len(aguiLog) < MaxCalls
    /\ messages' = <<>>
    /\ status_updates' = <<>>
    /\ results' = <<>>
    /\ aguiLog' = Append(aguiLog, ClearCall)
    /\ UNCHANGED <<enable_streaming, callbacks, delivered, returned>>
    /\ UNCHANGED nonAguiVars

\* the start of process_request: self.agui.clear(), then the STARTING status
AguiRequestStart ==
    /\ Len(aguiLog) + 2 <= MaxCalls
    /\ LET update == StatusUpdate(NextId)
       IN  /\ messages' = <<update>>
           /\ status_updates' = <<update>>
           /\ results' = <<>>
           /\ delivered' = IF enable_streaming
                           THEN [i \in 1..Len(callbacks) |-> Append(delivered[i], update)]
                           ELSE delivered
           /\ aguiLog' = aguiLog \o <<ClearCall, EmitCall(update)>>
    /\ UNCHANGED <<enable_streaming, callbacks, returned>>
    /\ UNCHANGED nonAguiVars

\* AGUIMessageHandler(enable_streaming=...)
AguiInit ==
    /\ enable_streaming \in BOOLEAN
    /\ messages = <<>>
    /\ status_updates = <<>>
    /\ results = <<>>
    /\ callbacks = <<>>
    /\ delivered = <<>>
    /\ returned = <<>>
    /\ aguiLog = <<>>
    /\ OptIdle
    /\ ProfIdle
    /\ FcIdle
    /\ PipeIdle

AguiNext ==
    \/ AguiRegisterCallback
    \/ AguiStatus
    \/ AguiResult
    \/ AguiSuggestions
    \/ AguiFinalize
    \/ AguiClear
    \/ AguiRequestStart

SpecAgui == AguiInit /\ [][AguiNext]_vars

-----------------------------------------------------------------------------
(* Properties of the message handler                                       *)

\* C24: a FinalResponse that finalize has returned keeps the results it was
\* returned with, whatever is cleared or emitted afterwards.
C24_ReturnedResponseKeepsResults ==
    \A k \in 1..Len(returned) :
        ResultsShownBy(returned[k].response) = returned[k].results_at_return

\* the messages emitted by the calls of a log, in order
RECURSIVE EmittedBy(_)
EmittedBy(log) ==
    IF log = <<>> THEN <<>>
    ELSE IF Head(log).call = "emit" THEN <<Head(log).message>> \o EmittedBy(Tail(log))
    ELSE EmittedBy(Tail(log))

\* the calls of a log after its last clear()
SinceLastClear(log) ==
    LET clears == {i \in 1..Len(log) : log[i].call = "clear"}
    IN  IF clears = {} THEN log
        ELSE SubSeq(log, (CHOOSE i \in clears : \A j \in clears : j <= i) + 1, Len(log))

IsResultMessage(message) == message.type = "result"

\* the position in the log of the i-th registration
RegistrationAt(i) ==
    CHOOSE n \in 1..Len(aguiLog) :
        /\ aguiLog[n].call = "register_callback"
        /\ Cardinality({m \in 1..n : aguiLog[m].call = "register_callback"}) = i

IsRegistration(entry) == entry.call = "register_callback"

\* C30: over any sequence of calls, (a) a FinalResponse that finalize returned
\* listed, when returned, exactly the ResultMessages emitted since the last
\* clear(), in emission order, and was itself the last message emitted; (b)
\* with streaming enabled each registered callback has been called exactly once
\* with every message emitted since its registration, in emission order, and
\* with streaming disabled with none; (c) right after clear() messages,
\* status_updates and results are empty, and the callbacks are always the
\* registrations made, in order.
C30_HandlerDeliversAndClears ==
    /\ \A k \in 1..Len(returned) :
           LET before == SubSeq(aguiLog, 1, returned[k].calls_at_return)
           IN  /\ returned[k].results_at_return
                      = SelectSeq(EmittedBy(SinceLastClear(before)), IsResultMessage)
               /\ before[Len(before)] = EmitCall(returned[k].response)
    /\ Len(delivered) = Len(callbacks)
    /\ \A i \in 1..Len(callbacks) :
           delivered[i] = IF enable_streaming
                          THEN EmittedBy(SubSeq(aguiLog, RegistrationAt(i) + 1, Len(aguiLog)))
                          ELSE <<>>
    /\ (aguiLog # <<>> /\ aguiLog[Len(aguiLog)].call = "clear") =>
           (messages = <<>> /\ status_updates = <<>> /\ results = <<>>)
    /\ callbacks = [i \in 1..Len(SelectSeq(aguiLog, IsRegistration)) |->
                        SelectSeq(aguiLog, IsRegistration)[i].callback]

\* C30 witness: with streaming enabled, a callback registered, a result, a
\* finalize that returned it and was delivered last, then a clear()
C30_Witness ==
    /\ enable_streaming
    /\ Len(callbacks) = 1
    /\ Len(returned) = 1
    /\ Len(returned[1].results_at_return) = 1
    /\ Len(delivered[1]) = 2
    /\ delivered[1][2] = returned[1].response
    /\ aguiLog[Len(aguiLog)].call = "clear"
    /\ messages = <<>>

====
